---- MODULE Spec2Model ----
(***************************************************************************)
(* A model of the two-pass JSON parser of src/json.cpp: json::parse (the   *)
(* counting pass, the building pass, the failure path) and                 *)
(* json::value_free, over a heap of allocations handed out by the          *)
(* settings' mem_alloc.  One step of the model is one iteration of the     *)
(* scan loop, of the rollback loop or of the teardown loop.                *)
(*                                                                         *)
(* Pointers are allocation numbers (0 is nullptr).  Node shells are all    *)
(* allocated before any payload, so node k is allocation k.  The members   *)
(* of the union `u` are kept as separate fields of a node: length (the     *)
(* unsigned int at offset 0 shared by string, array and object), values    *)
(* (the pointer at offset 8: string.ptr, array.values, object.values),     *)
(* integer, dbl and boolean.  No node kind reads a member of another kind. *)
(* _reserved holds next_alloc (a node) or object_mem (modelled as the byte *)
(* offset into the name area of the object's own buffer).                  *)
(*                                                                         *)
(* Integer widths are scaled down (UIntBits, IntBits, ULongBits) with the  *)
(* same margin of 8 below the maximum as the source.  Doubles are exact    *)
(* decimals [m, e].                                                        *)
(***************************************************************************)
EXTENDS Integers, Sequences, FiniteSets, TLC

VARIABLES
    input,          \* the caller's buffer `json`, a sequence of bytes
    settings,       \* json::settings as passed by the caller, plus the allocator's behaviour
    beyond,         \* the byte found one past the end of the buffer (-1: never read)
    pc,             \* position in the call sequence parse ... value_free
    state,          \* json_state: used_memory, first_pass, ptr, cur_line, cur_col
    flags,          \* the flag word, as the set of flags that are set
    top, root, alloc,   \* json_value *top, *root, *alloc
    string,         \* char *string, as [buf, off]
    string_length,  \* unsigned int string_length
    num,            \* num_digits, num_e, num_fraction
    error,          \* char error[], as [msg, line, col, at]
    nodes,          \* the node shells, node k in allocation k
    heap,           \* every allocation granted, live or freed
    hist,           \* history of allocator calls and of buffer writes
    result,         \* what parse returned ("none" before it returns) and error_buf
    value,          \* json_value *value of value_free
    free_with       \* the settings value_free was given

vars == <<input, settings, beyond, pc, state, flags, top, root, alloc, string,
          string_length, num, error, nodes, heap, hist, result, value, free_with>>

----------------------------------------------------------------------------
(* Integer widths and sizes *)

\* width of unsigned int (32 in the source), scaled down
UIntBits == 4
\* width of int (32 in the source), scaled down
IntBits == 8
\* width of unsigned long (64 in the source), scaled down
ULongBits == 12

RECURSIVE Pow2(_)
Pow2(n) == IF n <= 0 THEN 1 ELSE 2 * Pow2(n - 1)

UINT_MAX == Pow2(UIntBits) - 1
ULONG_MAX == Pow2(ULongBits) - 1
INT_MAX == Pow2(IntBits - 1) - 1

\* the margin kept below the maximum of a counter
Margin == 8
uint_maxMutant == UINT_MAX

\* state.uint_max, state.ulong_max (lines 273-274)
uint_max == UINT_MAX - Margin
ulong_max == ULONG_MAX - Margin

\* the largest block any allocator can hand out: half the address space
PTRDIFF_MAX == Pow2(ULongBits - 1) - 1

ToUInt(x) == x % Pow2(UIntBits)
ToULong(x) == x % Pow2(ULongBits)
\* conversion to int: two's complement wrap
ToInt(x) == LET r == x % Pow2(IntBits) IN IF r > INT_MAX THEN r - Pow2(IntBits) ELSE r

\* sizeof(value) where value is a json_value* (what new_value asks for a shell)
SizeofShellRequest == 8
\* sizeof(json_value): parent 8, type 4 (+4), u 16, _reserved 8
SizeofJsonValue == 40
\* sizeof(object_entry): name 8, name_length 4 (+4), value 8
SizeofObjectEntry == 24
\* sizeof(json_value *)
SizeofPointer == 8
\* offsetof(json_value, type) + sizeof(json::type): where the write of value->type ends
EndOfType == 12

Max(a, b) == IF a >= b THEN a ELSE b
Min(a, b) == IF a <= b THEN a ELSE b

----------------------------------------------------------------------------
(* Bytes *)

ord == ("{" :> 123) @@ ("}" :> 125) @@ ("[" :> 91) @@ ("]" :> 93) @@
       ("," :> 44) @@ (":" :> 58) @@ ("q" :> 34) @@ ("\\" :> 92) @@
       ("/" :> 47) @@ ("*" :> 42) @@ ("+" :> 43) @@ ("-" :> 45) @@
       ("." :> 46) @@ (" " :> 32) @@ ("\t" :> 9) @@ ("\n" :> 10) @@
       ("\r" :> 13) @@ ("NUL" :> 0) @@
       ("0" :> 48) @@ ("1" :> 49) @@ ("2" :> 50) @@ ("3" :> 51) @@
       ("4" :> 52) @@ ("5" :> 53) @@ ("6" :> 54) @@ ("7" :> 55) @@
       ("8" :> 56) @@ ("9" :> 57) @@
       ("A" :> 65) @@ ("B" :> 66) @@ ("C" :> 67) @@ ("D" :> 68) @@
       ("E" :> 69) @@ ("F" :> 70) @@
       ("a" :> 97) @@ ("b" :> 98) @@ ("c" :> 99) @@ ("d" :> 100) @@
       ("e" :> 101) @@ ("f" :> 102) @@ ("l" :> 108) @@ ("n" :> 110) @@
       ("r" :> 114) @@ ("s" :> 115) @@ ("t" :> 116) @@ ("u" :> 117) @@
       ("x" :> 120) @@
       ("BS" :> 8) @@ ("FF" :> 12) @@
       ("xEF" :> 239) @@ ("xBB" :> 187) @@ ("xBF" :> 191)

\* the bytes of a text given as a sequence of characters ("q" is the double quote)
Bytes(s) == [i \in DOMAIN s |-> ord[s[i]]]

isdigit(b) == b >= 48 /\ b <= 57

RECURSIVE BitAnd(_, _)
BitAnd(a, b) == IF a = 0 \/ b = 0 THEN 0
                ELSE (a % 2) * (b % 2) + 2 * BitAnd(a \div 2, b \div 2)

RECURSIVE BitOr(_, _)
BitOr(a, b) == IF a = 0 THEN b ELSE IF b = 0 THEN a
               ELSE Max(a % 2, b % 2) + 2 * BitOr(a \div 2, b \div 2)

Shl(a, n) == a * Pow2(n)
Shr(a, n) == a \div Pow2(n)

hex_value(c) ==
    IF c >= 48 /\ c <= 57 THEN c - 48
    ELSE IF c = 97 \/ c = 65 THEN 10
    ELSE IF c = 98 \/ c = 66 THEN 11
    ELSE IF c = 99 \/ c = 67 THEN 12
    ELSE IF c = 100 \/ c = 68 THEN 13
    ELSE IF c = 101 \/ c = 69 THEN 14
    ELSE IF c = 102 \/ c = 70 THEN 15
    ELSE 255

----------------------------------------------------------------------------
(* Exact decimals standing for double: [m, e] is m * 10^e, m not a multiple  *)
(* of 10 unless it is 0.  Rounding is not modelled.                          *)

RECURSIVE Pow10(_)
Pow10(k) == IF k <= 0 THEN 1 ELSE 10 * Pow10(k - 1)

RECURSIVE Dec(_, _)
Dec(m, e) == IF m = 0 THEN [m |-> 0, e |-> 0]
             ELSE IF m % 10 = 0 THEN Dec(m \div 10, e + 1)
             ELSE [m |-> m, e |-> e]

\* (double) i
DecOfInt(i) == Dec(i, 0)
\* x + y
DecAdd(x, y) == LET e == Min(x.e, y.e)
                IN Dec(x.m * Pow10(x.e - e) + y.m * Pow10(y.e - e), e)
\* -x
DecNeg(x) == [m |-> -x.m, e |-> x.e]
\* x * std::pow(10.0, k)
DecScale(x, k) == IF x.m = 0 THEN x ELSE [m |-> x.m, e |-> x.e + k]
\* ((double) f) / std::pow(10.0, k)
DecFraction(f, k) == Dec(f, -k)

----------------------------------------------------------------------------
(* The state of one call, gathered into a record the operators below pass on *)

M == [state |-> state, flags |-> flags, top |-> top, root |-> root,
      alloc |-> alloc, string |-> string, string_length |-> string_length,
      num |-> num, error |-> error, nodes |-> nodes, heap |-> heap,
      hist |-> hist, ctl |-> "fall", ret |-> 0, x |-> beyond]

Assign(m) ==
    /\ state' = m.state
    /\ flags' = m.flags
    /\ top' = m.top
    /\ root' = m.root
    /\ alloc' = m.alloc
    /\ string' = m.string
    /\ string_length' = m.string_length
    /\ num' = m.num
    /\ error' = m.error
    /\ nodes' = m.nodes
    /\ heap' = m.heap
    /\ hist' = m.hist

\* a node shell as calloc leaves it
ZeroNode == [type |-> "none", parent |-> 0, length |-> 0, values |-> 0,
             reserved |-> 0, integer |-> 0, dbl |-> [m |-> 0, e |-> 0],
             boolean |-> FALSE]

Uninit == -1

\* an allocation of `size` bytes; a payload's slots and bytes start uninitialised
NewBlock(size, zero, kind, len) ==
    [size |-> size, kind |-> kind, frees |-> 0,
     slots |-> IF kind \in {"array", "object"} THEN [i \in 1..len |-> Uninit] ELSE <<>>,
     names |-> IF kind = "object" THEN [i \in 1..len |-> [name |-> Uninit, name_length |-> Uninit]]
               ELSE <<>>,
     bytes |-> IF kind \in {"string", "object"} THEN [i \in 1..size |-> Uninit] ELSE <<>>]

\* settings.mem_alloc: the k-th call returns nullptr when the allocator is set to fail there
mem_alloc_fails(m) == settings.fail_at = m.hist.calls + 1

(* json_alloc (lines 125-135).  kind and len only shape the model's picture  *)
(* of the block; size is what the code computes.                             *)
QuotaExceededMutant(used, max_memory) == used > max_memory + SizeofShellRequest

QuotaExceeded(used, max_memory) == used > max_memory

json_alloc(m, size, zero, kind, len) ==
    LET asked == [m EXCEPT !.hist.requested = @ + size] IN
    IF ToULong(ulong_max - m.state.used_memory) < size
    THEN [asked EXCEPT !.ret = 0, !.hist.guard_refused = @ + 1]
    ELSE
      LET used == IF settings.max_memory # 0
                  THEN ToULong(m.state.used_memory + size)
                  ELSE m.state.used_memory
          counted == [asked EXCEPT !.state.used_memory = used]
      IN IF settings.max_memory # 0 /\ QuotaExceeded(used, settings.max_memory)
         THEN [counted EXCEPT !.ret = 0, !.hist.quota_refused = @ + 1]
         ELSE IF mem_alloc_fails(m) \/ size > PTRDIFF_MAX
         THEN [counted EXCEPT !.ret = 0, !.hist.calls = @ + 1,
                              !.hist.invoked = @ + size]
         ELSE [counted EXCEPT !.ret = Len(m.heap) + 1,
                              !.heap = Append(@, NewBlock(size, zero, kind, len)),
                              !.hist.calls = @ + 1,
                              !.hist.invoked = @ + size,
                              !.hist.granted = @ + size]

(* the payload of a node in the building pass, a being what json_alloc      *)
(* returned: `return 0` when it is nullptr, else `length = 0` (lines        *)
(* 159-163, 172-180, 186-190)                                               *)
PayloadMutant(a, shell, reserved) ==
    IF a.ret = 0
    THEN [a EXCEPT !.nodes[shell].values = 0, !.ret = 0]
    ELSE [a EXCEPT !.nodes[shell].values = a.ret,
                   !.nodes[shell].reserved = reserved, !.ret = 1]

Payload(a, shell, reserved) ==
    IF a.ret = 0
    THEN [a EXCEPT !.nodes[shell].values = 0, !.ret = 0]
    ELSE [a EXCEPT !.nodes[shell].values = a.ret,
                   !.nodes[shell].reserved = reserved,
                   !.nodes[shell].length = 0, !.ret = 1]

values_sizeMutant(v) == ToInt(SizeofObjectEntry * (v.length + 1))

\* values_size = sizeof(*value->u.object.values) * value->u.object.length (line 168)
values_size(v) == ToInt(SizeofObjectEntry * v.length)

\* the payload of node v is asked for with `size` bytes; values holds the name bytes
NotePayload(m, v, size) ==
    [m EXCEPT !.hist.payloads = Append(@, [type |-> v.type, length |-> v.length,
                                           names |-> v.values, size |-> size])]

\* json_alloc for the payload of node v
PayloadAlloc(m, v, size, kind) ==
    json_alloc(NotePayload(m, v, size), size, FALSE, kind,
               IF kind = "string" THEN 0 ELSE v.length)

(* the switch of new_value in the building pass (lines 152-192), m1 being   *)
(* the state after lines 146-150                                            *)
BuildPayload(m1, shell, v) ==
    CASE v.type = "json_array" ->
           IF v.length = 0 THEN [m1 EXCEPT !.ret = 1]
           ELSE Payload(PayloadAlloc(m1, v, ToULong(v.length * SizeofPointer), "array"),
                        shell, v.reserved)
      [] v.type = "json_object" ->
           IF v.length = 0 THEN [m1 EXCEPT !.ret = 1]
           ELSE Payload(PayloadAlloc(m1, v, ToULong(values_size(v) + v.values), "object"),
                        shell, values_size(v))
      [] v.type = "json_string" ->
           Payload(PayloadAlloc(m1, v, ToUInt(v.length + 1), "string"),
                   shell, v.reserved)
      [] OTHER -> [m1 EXCEPT !.ret = 1]

new_value_buildMutant(m) ==
    BuildPayload([m EXCEPT !.top = m.alloc,
                           !.root = IF m.root = 0 THEN m.alloc ELSE m.root],
                 m.alloc, m.nodes[m.alloc])

(* new_value in the building pass (lines 144-194) *)
new_value_build(m) ==
    BuildPayload([m EXCEPT !.top = m.alloc, !.alloc = m.nodes[m.alloc].reserved,
                           !.root = IF m.root = 0 THEN m.alloc ELSE m.root],
                 m.alloc, m.nodes[m.alloc])

(* the shell a of the counting pass, when it is not nullptr, is typed,      *)
(* linked to its parent and appended to the chain (lines 200-213)           *)
LinkShell(a, m, type) ==
    IF a.ret = 0 THEN [a EXCEPT !.ret = 0]
    ELSE [a EXCEPT !.hist.shell_overrun = @ \/ a.heap[a.ret].size < EndOfType,
                   !.nodes = [Append(@, [ZeroNode EXCEPT !.type = type, !.parent = m.top])
                                 EXCEPT ![IF m.alloc # 0 THEN m.alloc ELSE a.ret].reserved =
                                          IF m.alloc # 0 THEN a.ret ELSE @],
                   !.root = IF m.root = 0 THEN a.ret ELSE m.root,
                   !.alloc = a.ret, !.top = a.ret, !.ret = 1]

(* new_value in the counting pass (lines 196-215) *)
new_value_count(m, type) ==
    LinkShell(json_alloc(m, ToULong(SizeofShellRequest + settings.value_extra), TRUE,
                         "shell", 0),
              m, type)

(* the building pass asks for a value of kind `type` where the cursor is:   *)
(* the shell at the head of the chain is the one it is about to be handed  *)
(* (line 145)                                                              *)
NoteStart(m, type) ==
    [m EXCEPT !.hist.starts = Append(@, [shell |-> m.alloc, asked |-> type,
                                         at |-> m.state.ptr])]

\* new_value (lines 137-216); ret is 1 for true, 0 for false
new_value(m, type) ==
    IF m.state.first_pass = 0 THEN new_value_build(NoteStart(m, type))
    ELSE new_value_count(m, type)

----------------------------------------------------------------------------
(* The scan loop of json::parse, one iteration at a time *)

\* json (after the byte-order mark is skipped, lines 252-257) and end (line 261)
HasBOMMutant == Len(input) >= 2 /\ input[1] = 239 /\ input[2] = 187

HasBOM == Len(input) >= 3 /\ input[1] = 239 /\ input[2] = 187 /\ input[3] = 191
json == IF HasBOM THEN 3 ELSE 0
end == Len(input)

(* *p for a pointer p into the buffer, as the index p.  A read at or past   *)
(* `end` is outside the buffer: the byte at `end` is m.x, whatever lies     *)
(* there, and the bytes after it read as 0.                                 *)
Deref(m, p) == IF p < end THEN input[p + 1] ELSE IF p = end THEN m.x ELSE 0

\* records a read outside the buffer
NoteRead(m, p) == IF p >= end /\ p >= 0 THEN [m EXCEPT !.hist.overread = TRUE] ELSE m

Continue(m) == [m EXCEPT !.ctl = "continue"]

\* sprintf(error, "... %d:%d ...", LINE_AND_COL); goto e_failed
Fail(m, msg) ==
    [m EXCEPT !.ctl = "e_failed",
              !.error = [msg |-> msg, line |-> m.state.cur_line,
                         col |-> m.state.cur_col, at |-> m.state.ptr]]

\* e_alloc_failure (lines 864-866): the message carries no position
AllocFailure(m) ==
    [m EXCEPT !.ctl = "e_failed",
              !.error = [msg |-> "Memory allocation failure", line |-> 0,
                         col |-> 0, at |-> m.state.ptr]]

\* e_overflow (lines 868-870)
Overflow(m) == Fail(m, "Too long (caught overflow)")

\* e_unknown_value (lines 860-862)
UnknownValue(m) == Fail(m, "Unknown value")

\* the string or key being decoded is the k-th one closed in this pass, k = Cur + 1
CurString(m) == IF m.state.first_pass = 1 THEN Len(m.hist.counted) ELSE Len(m.hist.built)

\* the write of string[i] lands inside the buffer the building pass allocated
InsideString(m, i) ==
    /\ m.string.buf # 0
    /\ m.string.buf <= Len(m.heap)
    /\ m.string.off + i < Len(m.heap[m.string.buf].bytes)

\* the counting pass counted a byte at index i of this string (its end, for the terminator)
AgreesWithCount(m, i, terminator) ==
    /\ CurString(m) + 1 <= Len(m.hist.counted)
    /\ IF terminator THEN i = m.hist.counted[CurString(m) + 1]
       ELSE i < m.hist.counted[CurString(m) + 1]

\* string[i] = b in the building pass
WriteString(m, i, b, terminator) ==
    [m EXCEPT !.hist.oob_string = @ \/ ~InsideString(m, i),
              !.hist.disagree = @ \/ ~AgreesWithCount(m, i, terminator),
              !.heap = IF InsideString(m, i)
                       THEN [@ EXCEPT ![m.string.buf].bytes[m.string.off + i + 1] = b]
                       ELSE @]

\* STRING_ADD (lines 240-241)
STRING_ADD(m, b) ==
    [(IF m.state.first_pass = 0 THEN WriteString(m, m.string_length, b, FALSE) ELSE m)
        EXCEPT !.string_length = ToUInt(@ + 1)]

\* uchar = 0x010000 | ((uchar & 0x3FF) << 10) | (uchar2 & 0x3FF)  (line 344)
CombineSurrogates(uchar, uchar2) ==
    BitOr(BitOr(65536, Shl(BitAnd(uchar, 1023), 10)), BitAnd(uchar2, 1023))

\* (uchar & 0xF800) == 0xD800  (line 327)
IsSurrogate(uchar) == BitAnd(uchar, 63488) = 55296

\* the number of bytes the counting pass adds for a code point (lines 347-376)
Utf8CountMutant(uchar) ==
    IF uchar <= 127 THEN 1 ELSE IF uchar <= 2047 THEN 2 ELSE 3

Utf8Count(uchar) ==
    IF uchar <= 127 THEN 1
    ELSE IF uchar <= 2047 THEN 2
    ELSE IF uchar <= 65535 THEN 3
    ELSE 4

\* the bytes the building pass writes for a code point (lines 347-384)
Utf8Encode(uchar) ==
    IF uchar <= 127 THEN <<uchar>>
    ELSE IF uchar <= 2047
    THEN <<BitOr(192, Shr(uchar, 6)) % 256, BitOr(128, BitAnd(uchar, 63))>>
    ELSE IF uchar <= 65535
    THEN <<BitOr(224, Shr(uchar, 12)) % 256,
           BitOr(128, BitAnd(Shr(uchar, 6), 63)),
           BitOr(128, BitAnd(uchar, 63))>>
    ELSE <<BitOr(240, Shr(uchar, 18)) % 256,
           BitOr(128, BitAnd(Shr(uchar, 12), 63)),
           BitOr(128, BitAnd(Shr(uchar, 6), 63)),
           BitOr(128, BitAnd(uchar, 63))>>

RECURSIVE WriteAll(_, _)
WriteAll(m, bs) ==
    IF bs = <<>> THEN m
    ELSE WriteAll([WriteString(m, m.string_length, Head(bs), FALSE)
                      EXCEPT !.string_length = ToUInt(@ + 1)], Tail(bs))

\* lines 347-384: count the encoding, or write it
AddCodePoint(m, uchar) ==
    LET m1 == [m EXCEPT !.hist.decoded = Append(@, uchar)] IN
    IF m.state.first_pass = 1
    THEN [m1 EXCEPT !.string_length = ToUInt(@ + Utf8Count(uchar))]
    ELSE WriteAll(m1, Utf8Encode(uchar))

(* The four hex digits after ptr (lines 313-316, 331-334): the number of    *)
(* bytes consumed before one is no hex digit (4 when all are), and the      *)
(* value.  ptr + 1 .. ptr + 4 are inside the buffer by the length test.     *)
HexBad(m, p) ==
    IF hex_value(Deref(m, p + 1)) = 255 THEN 1
    ELSE IF hex_value(Deref(m, p + 2)) = 255 THEN 2
    ELSE IF hex_value(Deref(m, p + 3)) = 255 THEN 3
    ELSE IF hex_value(Deref(m, p + 4)) = 255 THEN 4
    ELSE 0

\* (uc_b1 << 4) | uc_b2 for the two hex digits after p, as an unsigned char
HexByte(m, p) == BitOr(Shl(hex_value(Deref(m, p + 1)), 4) % 256, hex_value(Deref(m, p + 2)))

\* lines 323-325: uc_b1 = (uc_b1 << 4) | uc_b2; uc_b2 = (uc_b3 << 4) | uc_b4; (uc_b1 << 8) | uc_b2
HexWord(m, p) == BitOr(Shl(HexByte(m, p), 8), HexByte(m, p + 2))

InvalidCharacter(m, p) == Fail([m EXCEPT !.state.ptr = p], "Invalid character value")

\* the second \uXXXX of a pair, p4 being the last digit of the first (lines 329-344)
SecondWord(m, uchar, p4) ==
    IF end - p4 <= 6 THEN InvalidCharacter(m, p4)
    ELSE IF Deref(m, p4 + 1) # 92 THEN InvalidCharacter(m, p4 + 1)
    ELSE IF Deref(m, p4 + 2) # 117 THEN InvalidCharacter(m, p4 + 2)
    ELSE IF HexBad(m, p4 + 2) # 0 THEN InvalidCharacter(m, p4 + 2 + HexBad(m, p4 + 2))
    ELSE AddCodePoint([m EXCEPT !.state.ptr = p4 + 6,
                                !.hist.pairs = Append(@,
                                    [uchar |-> uchar, uchar2 |-> HexWord(m, p4 + 2),
                                     combined |-> CombineSurrogates(uchar,
                                                                    HexWord(m, p4 + 2))])],
                      CombineSurrogates(uchar, HexWord(m, p4 + 2)))

\* the first \uXXXX decoded to uchar (lines 327-384)
FirstWord(m, uchar, p4) ==
    IF ~IsSurrogate(uchar) THEN AddCodePoint([m EXCEPT !.state.ptr = p4], uchar)
    ELSE SecondWord(m, uchar, p4)

\* case 'u' of the escape switch (lines 311-384)
UnicodeEscape(m) ==
    IF end - m.state.ptr <= 4 THEN InvalidCharacter(m, m.state.ptr)
    ELSE IF HexBad(m, m.state.ptr) # 0
    THEN InvalidCharacter(m, m.state.ptr + HexBad(m, m.state.ptr))
    ELSE FirstWord(m, HexWord(m, m.state.ptr), m.state.ptr + 4)

\* the byte an escape other than \u stands for (lines 307-310, 386-387)
EscapedByte(b) ==
    CASE b = 98 -> 8
      [] b = 102 -> 12
      [] b = 110 -> 10
      [] b = 114 -> 13
      [] b = 116 -> 9
      [] OTHER -> b

\* the switch on the byte after a backslash (lines 305-388)
Escape(m, b) ==
    IF b = 117 THEN UnicodeEscape(m) ELSE STRING_ADD(m, EscapedByte(b))

\* parent->u.object.values[i].name = ..., .name_length = ...  (lines 415-418)
WriteEntryName(m, obj, i, name, name_length) ==
    LET buf == m.nodes[obj].values
        inside == buf # 0 /\ buf <= Len(m.heap) /\ i < Len(m.heap[buf].names)
                  /\ (i + 1) * SizeofObjectEntry <= m.heap[buf].size
    IN IF inside
       THEN [m EXCEPT !.heap[buf].names[i + 1] = [name |-> name, name_length |-> name_length],
                      !.hist.filled = Append(@, [node |-> obj, at |-> i])]
       ELSE [m EXCEPT !.hist.oob_write = TRUE,
                      !.hist.filled = Append(@, [node |-> obj, at |-> i])]

(* after the closing quote of a key: the counting pass adds the name's size *)
(* to the object's count of name bytes, the building pass records the name  *)
(* and moves object_mem past it (lines 407-424)                             *)
CloseKey(m2, t, len) ==
    Continue([(IF m2.state.first_pass = 1
               THEN [m2 EXCEPT !.nodes[t].values = ToULong(@ + len + 1)]
               ELSE [WriteEntryName(m2, t, m2.nodes[t].length, m2.nodes[t].reserved,
                                    len)
                       EXCEPT !.nodes[t].reserved = @ + len + 1])
                EXCEPT !.flags = @ \cup {"flag_seek_value", "flag_need_colon"}])

\* the switch on top->type at the closing quote (lines 402-426)
CloseInto(m2, t, len) ==
    CASE m2.nodes[t].type = "json_string" ->
           [m2 EXCEPT !.nodes[t].length = len,
                      !.flags = @ \cup {"flag_next"}]
      [] m2.nodes[t].type = "json_object" -> CloseKey(m2, t, len)
      [] OTHER -> m2

\* the closing quote (lines 398-427)
CloseString(m) ==
    CloseInto([(IF m.state.first_pass = 0
                THEN WriteString(m, m.string_length, 0, TRUE) ELSE m)
                 EXCEPT !.flags = @ \ {"flag_string"},
                        !.string = [buf |-> 0, off |-> 0],
                        !.hist.counted = IF m.state.first_pass = 1
                                         THEN Append(@, m.string_length) ELSE @,
                        !.hist.built = IF m.state.first_pass = 0
                                       THEN Append(@, m.string_length) ELSE @],
              m.top, m.string_length)

\* after an escape: continue, unless it failed
Escaped(r) == IF r.ctl = "e_failed" THEN r ELSE Continue(r)

\* if (flags & flag_string)  (lines 289-432)
StringMode(m, b) ==
    IF b = 0 THEN Fail(m, "Unexpected EOF in string")
    ELSE IF m.string_length > uint_max THEN Overflow(m)
    ELSE IF "flag_escaped" \in m.flags
    THEN Escaped(Escape([m EXCEPT !.flags = @ \ {"flag_escaped"}], b))
    ELSE IF b = 92 THEN Continue([m EXCEPT !.flags = @ \cup {"flag_escaped"}])
    ELSE IF b = 34 THEN CloseString(m)
    ELSE Continue(STRING_ADD(m, b))

StepBackMutant(m) == [m EXCEPT !.state.ptr = @ - 2]

\* --state.ptr: the byte is examined again by the next iteration (lines 439, 813)
StepBack(m) == [m EXCEPT !.state.ptr = @ - 1]

CommentModeMutant(m, b) ==
    IF "flag_line_comment" \in m.flags
    THEN IF b = 13 \/ b = 10 \/ b = 0
         THEN Continue([m EXCEPT !.flags = @ \ {"flag_line_comment"},
                                 !.state.ptr = @ - 1])
         ELSE Continue(m)
    ELSE IF "flag_block_comment" \in m.flags
    THEN IF b = 0 THEN Fail(m, "Unexpected EOF in block comment")
         ELSE IF b = 42 /\ m.state.ptr < end - 1 /\ Deref(m, m.state.ptr + 1) = 47
         THEN Continue([m EXCEPT !.flags = @ \ {"flag_block_comment"}])
         ELSE Continue(m)
    ELSE \* b == '/'
      IF m.flags \cap {"flag_seek_value", "flag_done"} = {}
         /\ m.nodes[m.top].type # "json_object"
      THEN Fail(m, "Comment not allowed here")
      ELSE LET m1 == [m EXCEPT !.state.ptr = @ + 1] IN
           IF m1.state.ptr = end THEN Fail(m1, "EOF unexpected")
           ELSE LET b2 == Deref(m1, m1.state.ptr) IN
                IF b2 = 47
                THEN Continue([m1 EXCEPT !.flags = @ \cup {"flag_line_comment"}])
                ELSE IF b2 = 42
                THEN Continue([m1 EXCEPT !.flags = @ \cup {"flag_block_comment"}])
                ELSE Fail(m1, "Unexpected character in comment opening sequence")

\* the comment sections of the loop body (lines 434-491)
CommentMode(m, b) ==
    IF "flag_line_comment" \in m.flags
    THEN IF b = 13 \/ b = 10 \/ b = 0
         THEN Continue(StepBack([m EXCEPT !.flags = @ \ {"flag_line_comment"}]))
         ELSE Continue(m)
    ELSE IF "flag_block_comment" \in m.flags
    THEN IF b = 0 THEN Fail(m, "Unexpected EOF in block comment")
         ELSE IF b = 42 /\ m.state.ptr < end - 1 /\ Deref(m, m.state.ptr + 1) = 47
         THEN Continue([m EXCEPT !.flags = @ \ {"flag_block_comment"},
                                 !.state.ptr = @ + 1])
         ELSE Continue(m)
    ELSE \* b == '/'
      IF m.flags \cap {"flag_seek_value", "flag_done"} = {}
         /\ m.nodes[m.top].type # "json_object"
      THEN Fail(m, "Comment not allowed here")
      ELSE LET m1 == [m EXCEPT !.state.ptr = @ + 1] IN
           IF m1.state.ptr = end THEN Fail(m1, "EOF unexpected")
           ELSE LET b2 == Deref(m1, m1.state.ptr) IN
                IF b2 = 47
                THEN Continue([m1 EXCEPT !.flags = @ \cup {"flag_line_comment"}])
                ELSE IF b2 = 42
                THEN Continue([m1 EXCEPT !.flags = @ \cup {"flag_block_comment"}])
                ELSE Fail(m1, "Unexpected character in comment opening sequence")

\* the bytes of the WHITESPACE cases (lines 236-238)
IsWhitespace(b) == b \in {10, 32, 9, 13}

\* WHITESPACE: a newline starts a line, then the byte is skipped
WHITESPACE(m, b) ==
    Continue(IF b = 10
             THEN [m EXCEPT !.state.cur_line = @ + 1, !.state.cur_col = 0]
             ELSE m)

\* if (flags & flag_done)  (lines 493-507)
DoneMode(m, b) ==
    IF b = 0 THEN [m EXCEPT !.ctl = "break"]
    ELSE IF IsWhitespace(b) THEN WHITESPACE(m, b)
    ELSE Fail(m, "Trailing garbage")

(* The keywords (lines 576-618): the length test, then the bytes after ptr  *)
(* one by one; ptr stops at the first byte that differs.                     *)
RECURSIVE MatchRest(_, _)
MatchRest(m, rest) ==
    IF rest = <<>> THEN m
    ELSE LET p == m.state.ptr + 1
             m1 == NoteRead([m EXCEPT !.state.ptr = p], p)
         IN IF Deref(m, p) # Head(rest) THEN UnknownValue(m1)
            ELSE MatchRest(m1, Tail(rest))

\* the node v of a keyword: its value, then flag_next (lines 584-588, 599-601, 612-614)
KeywordValue(v, isTrue) ==
    IF v.ret = 0 THEN AllocFailure(v)
    ELSE [v EXCEPT !.nodes[v.top].boolean = IF isTrue THEN TRUE ELSE @,
                   !.flags = @ \cup {"flag_next"}]

\* k is the state after the bytes of the keyword were compared
KeywordMatched(k, type, isTrue) ==
    IF k.ctl = "e_failed" THEN k ELSE KeywordValue(new_value(k, type), isTrue)

Keyword(m, least, rest, type, isTrue) ==
    IF end - m.state.ptr < least THEN UnknownValue(m)
    ELSE KeywordMatched(MatchRest(m, rest), type, isTrue)

IsNumberByte(b) == isdigit(b) \/ b \in {43, 45, 101, 69, 46}

SkipNumberMutant(m, p) == p + 1

\* the building pass skips a number (lines 626-638): the index where the loop stops
RECURSIVE SkipNumber(_, _)
SkipNumber(m, p) ==
    IF p + 1 = end THEN p + 1
    ELSE IF IsNumberByte(Deref(m, p + 1)) THEN SkipNumber(m, p + 1)
    ELSE p + 1

NumFlags == {"flag_num_negative", "flag_num_e", "flag_num_e_got_sign",
             "flag_num_e_negative", "flag_num_zero"}

ZeroNum == [digits |-> 0, e |-> 0, fraction |-> 0]

\* the counting pass starts a number in node v (lines 640-651)
CountNumber(v, b) ==
    IF b # 45
    THEN [v EXCEPT !.flags = (@ \ NumFlags) \cup {"flag_reproc"}, !.num = ZeroNum]
    ELSE Continue([v EXCEPT !.flags = (@ \ NumFlags) \cup {"flag_num_negative"},
                            !.num = ZeroNum])

\* v is what new_value returned for the number (lines 623-651)
NumberValue(v, b) ==
    IF v.ret = 0 THEN AllocFailure(v)
    ELSE IF v.state.first_pass = 0
    THEN [v EXCEPT !.state.ptr = SkipNumber(v, v.state.ptr),
                   !.flags = @ \cup {"flag_next", "flag_reproc"}]
    ELSE CountNumber(v, b)

\* a digit or '-' where a value is sought (lines 621-658)
StartNumber(m, b) == NumberValue(new_value(m, "json_integer"), b)

\* a container was opened: it is now the innermost open one
Opened(v) == [v EXCEPT !.hist.open = Append(@, v.top)]

(* a closing bracket was accepted for a container of kind `type`: the      *)
(* innermost open one is closed                                            *)
Closed(m, type) ==
    IF m.hist.open = <<>> THEN [m EXCEPT !.hist.mismatch = TRUE]
    ELSE [m EXCEPT !.hist.mismatch =
                      @ \/ m.nodes[m.hist.open[Len(m.hist.open)]].type # type,
                   !.hist.open = SubSeq(@, 1, Len(@) - 1)]

\* case '{' (lines 554-558), v being what new_value returned
StartObject(v) == IF v.ret = 0 THEN AllocFailure(v) ELSE Continue(Opened(v))

\* case '[' (lines 560-565)
StartArray(v) ==
    IF v.ret = 0 THEN AllocFailure(v)
    ELSE Continue(Opened([v EXCEPT !.flags = @ \cup {"flag_seek_value"}]))

\* case '"' (lines 567-574)
StartString(v) ==
    IF v.ret = 0 THEN AllocFailure(v)
    ELSE Continue([v EXCEPT !.flags = @ \cup {"flag_string"},
                            !.string = [buf |-> v.nodes[v.top].values, off |-> 0],
                            !.string_length = 0])

\* the switch on the first byte of a value (lines 545-665)
StartValue(m, b) ==
    CASE b = 123 -> StartObject(new_value(m, "json_object"))
      [] b = 91 -> StartArray(new_value(m, "json_array"))
      [] b = 34 -> StartString(new_value(m, "json_string"))
      [] b = 116 -> Keyword(m, 3, <<114, 117, 101>>, "json_boolean", TRUE)
      [] b = 102 -> Keyword(m, 4, <<97, 108, 115, 101>>, "json_boolean", FALSE)
      [] b = 110 -> Keyword(m, 3, <<117, 108, 108>>, "json_null", FALSE)
      [] OTHER ->
           IF isdigit(b) \/ b = 45 THEN StartNumber(m, b)
           ELSE Fail(m, "Unexpected character when seeking value")

\* if (flags & flag_seek_value)  (lines 509-666)
SeekValueMode(m, b) ==
    IF IsWhitespace(b) THEN WHITESPACE(m, b)
    ELSE IF b = 93
    THEN IF m.top # 0 /\ m.nodes[m.top].type = "json_array"
         THEN Closed([m EXCEPT !.flags = (@ \ {"flag_need_comma", "flag_seek_value"})
                                           \cup {"flag_next"}],
                     "json_array")
         ELSE Fail(m, "Unexpected ]")
    ELSE IF "flag_need_comma" \in m.flags
    THEN IF b = 44 THEN Continue([m EXCEPT !.flags = @ \ {"flag_need_comma"}])
         ELSE Fail(m, "Expected , before")
    ELSE IF "flag_need_colon" \in m.flags
    THEN IF b = 58 THEN Continue([m EXCEPT !.flags = @ \ {"flag_need_colon"}])
         ELSE Fail(m, "Expected : before")
    ELSE StartValue([m EXCEPT !.flags = @ \ {"flag_seek_value"}], b)

\* case json_object of the switch on top->type (lines 669-705)
ObjectMode(m, b) ==
    IF IsWhitespace(b) THEN WHITESPACE(m, b)
    ELSE IF b = 34
    THEN IF "flag_need_comma" \in m.flags THEN Fail(m, "Expected , before quote")
         ELSE [m EXCEPT !.flags = @ \cup {"flag_string"},
                        !.string = IF m.state.first_pass = 0
                                   THEN [buf |-> m.nodes[m.top].values,
                                         off |-> m.nodes[m.top].reserved]
                                   ELSE [buf |-> 0, off |-> 0],
                        !.string_length = 0]
    ELSE IF b = 125
    THEN Closed([m EXCEPT !.flags = (@ \ {"flag_need_comma"}) \cup {"flag_next"}],
                "json_object")
    ELSE IF b = 44 /\ "flag_need_comma" \in m.flags
    THEN [m EXCEPT !.flags = @ \ {"flag_need_comma"}]
    ELSE Fail(m, "Unexpected character in object")

LeadingZeroMutant(m) == FALSE

\* if (flags & flag_num_zero): the integer part so far is a single 0 (line 716)
LeadingZero(m) == "flag_num_zero" \in m.flags

\* a digit inside a number (lines 709-735)
NumberDigit(m, b) ==
    LET t == m.top
        m1 == [m EXCEPT !.num.digits = @ + 1]
        d == b - 48
    IN IF m.nodes[t].type = "json_integer" \/ "flag_num_e" \in m.flags
       THEN IF "flag_num_e" \notin m.flags
            THEN IF LeadingZero(m) THEN Fail(m1, "Unexpected 0 before")
                 ELSE Continue([m1 EXCEPT
                        !.flags = IF m1.num.digits = 1 /\ b = 48
                                  THEN @ \cup {"flag_num_zero"} ELSE @,
                        !.nodes[t].integer = @ * 10 + d])
            ELSE Continue([m1 EXCEPT !.flags = @ \cup {"flag_num_e_got_sign"},
                                     !.num.e = @ * 10 + d])
       ELSE Continue([m1 EXCEPT !.num.fraction = @ * 10 + d])

\* the end of a number (lines 759-804)
CommitNumber(m, b) ==
    LET t == m.top
        isE == "flag_num_e" \in m.flags
        isDouble == m.nodes[t].type = "json_double"
        negate(r) ==
            [r EXCEPT !.nodes[t].integer = IF "flag_num_negative" \in m.flags
                                              /\ r.nodes[t].type = "json_integer"
                                           THEN -@ ELSE @,
                      !.nodes[t].dbl = IF "flag_num_negative" \in m.flags
                                          /\ r.nodes[t].type # "json_integer"
                                       THEN DecNeg(@) ELSE @,
                      !.flags = @ \cup {"flag_next", "flag_reproc"}]
    IN IF ~isE
       THEN IF isDouble /\ m.num.digits = 0 THEN Fail(m, "Expected digit after .")
            ELSE LET m1 == IF isDouble
                           THEN [m EXCEPT !.nodes[t].dbl =
                                   DecAdd(@, DecFraction(m.num.fraction, m.num.digits))]
                           ELSE m
                 IN IF b = 101 \/ b = 69
                    THEN Continue([m1 EXCEPT
                           !.flags = (@ \cup {"flag_num_e"}) \ {"flag_num_zero"},
                           !.nodes[t].type = "json_double",
                           !.nodes[t].dbl = IF isDouble THEN @
                                            ELSE DecOfInt(m.nodes[t].integer),
                           !.num.digits = 0])
                    ELSE negate(m1)
       ELSE IF m.num.digits = 0 THEN Fail(m, "Expected digit after e")
            ELSE negate([m EXCEPT !.nodes[t].dbl =
                           DecScale(@, IF "flag_num_e_negative" \in m.flags
                                       THEN -m.num.e ELSE m.num.e)])

\* case json_integer, json_double of the switch on top->type (lines 707-804)
NumberMode(m, b) ==
    LET t == m.top IN
    IF isdigit(b) THEN NumberDigit(m, b)
    ELSE IF (b = 43 \/ b = 45)
            /\ "flag_num_e" \in m.flags /\ "flag_num_e_got_sign" \notin m.flags
    THEN Continue([m EXCEPT !.flags = @ \cup {"flag_num_e_got_sign"}
                                        \cup (IF b = 45 THEN {"flag_num_e_negative"} ELSE {})])
    ELSE IF b = 46 /\ m.nodes[t].type = "json_integer"
    THEN IF m.num.digits = 0 THEN Fail(m, "Expected digit before .")
         ELSE Continue([m EXCEPT !.nodes[t].type = "json_double",
                                 !.nodes[t].dbl = DecOfInt(m.nodes[t].integer),
                                 !.num.digits = 0])
    ELSE CommitNumber(m, b)

WriteFirstSlotMutant(m, parent, i, child) ==
    LET buf == m.nodes[parent].values
    IN IF buf # 0 /\ buf <= Len(m.heap) /\ i < Len(m.heap[buf].slots)
       THEN [m EXCEPT !.heap[buf].slots[1] = child,
                      !.hist.filled = Append(@, [node |-> parent, at |-> i])]
       ELSE [m EXCEPT !.hist.oob_write = TRUE]

WriteSlotMutant(m, parent, i, child) ==
    LET buf == m.nodes[parent].values
    IN IF buf # 0 /\ buf <= Len(m.heap) /\ i < Len(m.heap[buf].slots)
       THEN [m EXCEPT !.heap[buf].slots[Len(m.heap[buf].slots) - i] = child,
                      !.hist.filled = Append(@, [node |-> parent, at |-> i])]
       ELSE [m EXCEPT !.hist.oob_write = TRUE]

\* parent->u.array.values[i] = top, parent->u.object.values[i].value = top (lines 828-845)
WriteSlot(m, parent, i, child) ==
    LET buf == m.nodes[parent].values
        width == IF m.nodes[parent].type = "json_object" THEN SizeofObjectEntry
                 ELSE SizeofPointer
        inside == buf # 0 /\ buf <= Len(m.heap) /\ i < Len(m.heap[buf].slots)
                  /\ (i + 1) * width <= m.heap[buf].size
    IN IF inside THEN [m EXCEPT !.heap[buf].slots[i + 1] = child,
                                !.hist.filled = Append(@, [node |-> parent, at |-> i])]
       ELSE [m EXCEPT !.hist.oob_write = TRUE,
                      !.hist.filled = Append(@, [node |-> parent, at |-> i])]

ClimbMutant(m, parent) == m

\* top = top->parent (line 850)
Climb(m, parent) == [m EXCEPT !.top = parent]

\* if (flags & flag_next)  (lines 816-852)
NextValue(m) ==
    LET t == m.top
        parent == m.nodes[t].parent
        m1 == [m EXCEPT !.flags = (@ \ {"flag_next"}) \cup {"flag_need_comma"},
                        !.hist.closed =
                            IF m.state.first_pass = 0
                               /\ m.nodes[t].type \in {"json_array", "json_object"}
                            THEN Append(@, [node |-> t, length |-> m.nodes[t].length])
                            ELSE @]
    IN IF parent = 0 THEN Continue([m1 EXCEPT !.flags = @ \cup {"flag_done"},
                                              !.hist.done_at = m.state.ptr])
       ELSE LET m2 == IF m.nodes[parent].type = "json_array"
                      THEN [m1 EXCEPT !.flags = @ \cup {"flag_seek_value"}] ELSE m1
                m3 == IF m.state.first_pass = 0
                         /\ m.nodes[parent].type \in {"json_object", "json_array"}
                      THEN WriteSlot(m2, parent, m.nodes[parent].length, t) ELSE m2
                m4 == [m3 EXCEPT !.nodes[parent].length = ToUInt(@ + 1)]
            IN IF m4.nodes[parent].length > uint_max THEN Overflow(m4)
               ELSE Continue(Climb(m4, parent))

\* the end of the loop body (lines 811-852)
LoopTail(m) ==
    LET m1 == IF "flag_reproc" \in m.flags
              THEN StepBack([m EXCEPT !.flags = @ \ {"flag_reproc"}])
              ELSE m
    IN IF "flag_next" \in m1.flags THEN NextValue(m1) ELSE m1

\* the byte the iteration looks at (line 287)
CurByte(m) == IF m.state.ptr = end THEN 0 ELSE Deref(m, m.state.ptr)

InComment(m, b) ==
    /\ settings.allow_comments
    /\ \/ m.flags \cap {"flag_line_comment", "flag_block_comment"} # {}
       \/ b = 47

\* the switch on top->type (lines 667-806)
TopMode(m, b) ==
    CASE m.nodes[m.top].type = "json_object" -> ObjectMode(m, b)
      [] m.nodes[m.top].type \in {"json_integer", "json_double"} -> NumberMode(m, b)
      [] OTHER -> m

\* a section that neither continued nor left the loop falls to the end of the body
FallTo(r) == IF r.ctl = "fall" THEN LoopTail(r) ELSE r

(* r is what the comment sections made of m: the place where a comment was *)
(* opened is kept, and each comment that ended is recorded with the byte    *)
(* it ended at                                                              *)
NoteComment(m, r) ==
    LET was == m.flags \cap {"flag_line_comment", "flag_block_comment"}
        is == r.flags \cap {"flag_line_comment", "flag_block_comment"}
    IN IF was = {} /\ is # {} THEN [r EXCEPT !.hist.comment_from = r.state.ptr]
       ELSE IF was # {} /\ is = {}
       THEN [r EXCEPT !.hist.comments =
               Append(@, [kind |-> IF "flag_line_comment" \in was THEN "line" ELSE "block",
                          from |-> m.hist.comment_from, at |-> m.state.ptr,
                          done |-> "flag_done" \in m.flags])]
       ELSE r

\* the sections after the string section (lines 434-852)
AfterString(m, b) ==
    IF m.ctl # "fall" THEN m
    ELSE IF InComment(m, b) THEN NoteComment(m, CommentMode(m, b))
    ELSE IF "flag_done" \in m.flags THEN DoneMode(m, b)
    ELSE FallTo(IF "flag_seek_value" \in m.flags THEN SeekValueMode(m, b)
                ELSE TopMode(m, b))

\* the byte was read from the buffer unless ptr == end (line 287)
Fetched(m) == NoteRead(m, IF m.state.ptr = end THEN -1 ELSE m.state.ptr)

\* the byte at ptr is examined: for the first time in this pass, or again
Examined(m) ==
    LET p == m.state.ptr IN
    [Fetched(m) EXCEPT !.hist.seen = @ \cup {p},
                       !.hist.again = IF p \in m.hist.seen THEN @ \cup {p} ELSE @,
                       !.hist.thrice = IF p \in m.hist.again THEN @ \cup {p} ELSE @]

\* the iteration at ptr is one of the string section
InString(m) == [m EXCEPT !.hist.in_string = @ \cup {m.state.ptr}]

\* one iteration of the scan loop (lines 286-853)
LoopBody(m) ==
    AfterString(IF "flag_string" \in m.flags
                THEN StringMode(InString(Examined(m)), CurByte(m))
                ELSE Examined(m),
                CurByte(m))

----------------------------------------------------------------------------
(* Release *)

\* settings.mem_free(p, user_data)
mem_free(m, p) ==
    IF p = 0 THEN [m EXCEPT !.hist.free_null = @ + 1]
    ELSE IF p < 0 \/ p > Len(m.heap) THEN [m EXCEPT !.hist.free_bad = @ + 1]
    ELSE [m EXCEPT !.heap[p].frees = @ + 1]

\* a read of node v by value_free: of freed memory when the shell is gone
NoteNodeRead(m, v) == IF m.heap[v].frees > 0 THEN [m EXCEPT !.hist.uaf = TRUE] ELSE m

Crash(m, why) == [m EXCEPT !.ctl = "crash", !.hist.crash = why]

FreeNodeMutant(m, v) == [m EXCEPT !.ret = m.nodes[v].parent]

\* cur_value = value; value = value->parent; mem_free(cur_value)  (lines 936-938)
FreeNode(m, v) == [mem_free(m, v) EXCEPT !.ret = m.nodes[v].parent]

(* One iteration of the loop of value_free (lines 908-939) on node v; ret  *)
(* is the next value.  A child slot is read through values: through        *)
(* nullptr, or holding what malloc left there, the read is undefined and   *)
(* the model stops the call.                                               *)
FreeIteration(m0, v) ==
    LET m == NoteNodeRead(m0, v)
        n == m.nodes[v]
    IN IF n.type \in {"json_array", "json_object"}
       THEN IF n.length = 0 THEN FreeNode(mem_free(m, n.values), v)
            ELSE LET i == n.length - 1
                     m1 == [m EXCEPT !.nodes[v].length = i]
                 IN IF n.values = 0 THEN Crash(m1, "null values")
                    ELSE IF n.values > Len(m.heap) \/ i >= Len(m.heap[n.values].slots)
                    THEN Crash(m1, "slot outside the buffer")
                    ELSE IF m.heap[n.values].slots[i + 1] = Uninit
                    THEN Crash(m1, "uninitialised slot")
                    ELSE [m1 EXCEPT !.ret = m.heap[n.values].slots[i + 1]]
       ELSE IF n.type = "json_string" THEN FreeNode(mem_free(m, n.values), v)
       ELSE FreeNode(m, v)

----------------------------------------------------------------------------
(* Inputs and settings *)

\* longest enumerated text over StructBytes
MaxLen == 3
\* longest enumerated number literal over NumBytes
MaxNumLen == 4
\* the allocator can be set to fail at its 1st .. MaxFailAt-th call
MaxFailAt == 6
\* the memory ceilings tried are 0 (none) .. MaxQuota
MaxQuota == 34
\* settings.value_extra is 0 or enough to hold a whole node
MaxValueExtra == 32

RECURSIVE SeqsUpTo(_, _)
SeqsUpTo(S, n) ==
    IF n = 0 THEN {<<>>}
    ELSE LET shorter == SeqsUpTo(S, n - 1)
         IN shorter \cup {Append(t, c) : t \in {u \in shorter : Len(u) = n - 1}, c \in S}

StructBytes == {ord[c] : c \in {"[", "]", "{", "}", ",", ":", "q", "1"}}
NumBytes == {ord[c] : c \in {"-", "0", "1", ".", "e", "+"}}

StructTexts == SeqsUpTo(StructBytes, MaxLen)
NumTexts == SeqsUpTo(NumBytes, MaxNumLen)

Q == <<"q">>
U(w) == <<"\\", "u">> \o w

HexWords == {
    <<"0","0","4","1">>, <<"0","0","7","F">>, <<"0","0","8","0">>,
    <<"0","0","e","9">>, <<"0","7","F","F">>, <<"0","8","0","0">>,
    <<"D","7","F","F">>, <<"E","0","0","0">>, <<"F","F","F","F">>,
    <<"D","8","0","0">>, <<"D","8","3","D">>, <<"D","8","4","0">>,
    <<"D","B","F","F">>, <<"D","C","0","0">>, <<"D","E","0","0">>,
    <<"D","F","F","F">>, <<"0","0","x","1">>, <<"0","0","4","x">> }

FirstWords == {
    <<"D","8","0","0">>, <<"D","8","3","D">>, <<"D","8","4","0">>,
    <<"D","B","F","F">>, <<"D","C","0","0">>, <<"0","0","4","1">> }

SecondWords == {
    <<"D","C","0","0">>, <<"D","E","0","0">>, <<"D","F","F","F">>,
    <<"0","0","4","1">>, <<"D","8","0","0">>, <<"D","C","0","x">> }

\* "\uXXXX", "\uXXXX\uYYYY", "\uXXXXa" and the same cut short
EscapeTexts ==
    {Bytes(Q \o U(w) \o Q) : w \in HexWords}
    \cup {Bytes(Q \o U(w) \o U(v) \o Q) : w \in FirstWords, v \in SecondWords}
    \cup {Bytes(Q \o U(w) \o <<"a">> \o Q) : w \in FirstWords}
    \cup {Bytes(Q \o U(w)) : w \in FirstWords}
    \cup {Bytes(Q \o U(w) \o <<"\\", "u", "D", "C">>) : w \in FirstWords}
    \cup {Bytes(Q \o <<"a">> \o U(w) \o U(v) \o <<"b">> \o Q) :
            w \in {<<"D","8","3","D">>}, v \in {<<"D","E","0","0">>}}

\* texts that exercise the tree, the allocator and the release paths
TreeTexts == {
    Bytes(<<"{", "}">>),
    Bytes(<<"[", "]">>),
    Bytes(<<"q", "a", "q">>),
    Bytes(<<"[", "q", "a", "q", "]">>),
    Bytes(<<"[", "[", "1", "]", "]">>),
    Bytes(<<"[", "1", ",", "q", "a", "b", "q", ",", "[", "]", "]">>),
    Bytes(<<"{", "q", "a", "q", ":", "1", "}">>),
    Bytes(<<"{", "q", "a", "q", ":", "}">>),
    Bytes(<<"{", "q", "a", "q", ":", "1", ",", "q", "a", "q", ":", "2", "}">>),
    Bytes(<<"{", "q", "a", "q", ":", "{", "q", "b", "q", ":", "[", "q", "c", "q", "]",
            "}", "}">>),
    Bytes(<<"{", "q", "a", "q", ":", "1", ",", "q", "b", "q", ":", "[", "1", ",", "2",
            ",", "3", "]", "}">>),
    Bytes(<<"[", "t", "r", "u", "e", ",", "f", "a", "l", "s", "e", ",", "n", "u", "l",
            "l", "]">>),
    Bytes(<<"[", "q", "a", "q", ",", "q", "x", "\\", "n", "q", "]", " ">>)
  }

\* texts with comments, line breaks, a byte-order mark, a zero byte, cut keywords
OtherTexts == {
    Bytes(<<"{", " ", "/", "/", " ", "x", "\n", " ", "q", "a", "q", ":", "1", " ", "}">>),
    Bytes(<<"[", "1", " ", "/", "*", " ", "c", "*", " ", "*", "/", ",", "2", "]">>),
    Bytes(<<"1", " ", "/", "/", " ", "c">>),
    Bytes(<<"1", "/", "/", "c", "\r", "\n">>),
    Bytes(<<"[", "]", "/", "*", " ", "c">>),
    Bytes(<<"[", "1", "/", "/", "\n", "]">>),
    Bytes(<<"[", "]", "/">>),
    Bytes(<<"[", "]", "/", "x">>),
    Bytes(<<"/", "*", "\n", "*", "/", "[", "\n", "x">>),
    Bytes(<<"q", "a", "/", "/", "q">>),
    Bytes(<<"xEF", "xBB", "xBF", "[", "]">>),
    Bytes(<<"xEF", "xBB", "[", "]">>),
    Bytes(<<"xEF", "xBB", "xBF">>),
    Bytes(<<"1", "NUL", "x">>),
    Bytes(<<"[", "]", "NUL">>),
    Bytes(<<"[", "]", " ", "\t", "\r", "\n", " ">>),
    Bytes(<<"[", "]", " ", "x">>),
    Bytes(<<"[", "NUL", "]">>),
    Bytes(<<"q", "a", "NUL", "q">>),
    Bytes(<<"t", "r", "u", "e">>),
    Bytes(<<"t", "r", "u">>),
    Bytes(<<"f", "a", "l", "s", "e">>),
    Bytes(<<"f", "a", "l", "s">>),
    Bytes(<<"n", "u", "l", "l">>),
    Bytes(<<"n", "u", "l">>),
    Bytes(<<"t", "r", "u", "x">>),
    Bytes(<<"[", "\n", "1", ",", "\n", "\n", "x", "]">>),
    Bytes(<<"[", "q", "\n", "q", ",", "\n", "x", "]">>),
    Bytes(<<"{", "\n", " ", "q", "a", "q", ":", "}">>),
    Bytes(<<"{", "q", "a", "q", " ", ":", " ", "1", " ", ",", "}">>),
    Bytes(<<"{", "q", "a", "q", " ", "1", "}">>),
    Bytes(<<"{", "1", "}">>),
    Bytes(<<"{", "q", "a", "q", ":", "[", "1", "]", ",", "q", "b", "c", "q", ":", "x", "}">>),
    Bytes(<<"q", "\\", "b", "\\", "f", "\\", "n", "\\", "r", "\\", "t", "\\", "q",
            "\\", "\\", "q">>),
    Bytes(<<"q", "\\", "/", "\\", "x", "q">>),
    Bytes(<<"q", "a", "a", "a", "a", "a", "a", "a", "a", "a", "q">>),
    Bytes(<<"q", "a", "a", "a", "a", "a", "a", "a", "q">>),
    Bytes(<<"q", "a", "a", "a", "a", "a", "a", "a", "a">>),
    Bytes(<<"q", "a", "a", "a", "a", "a", "a", "a", "\\", "u", "D", "8", "3", "D",
            "\\", "u", "D", "E", "0", "0", "q">>),
    Bytes(<<"q", "a", "a", "a", "a", "a", "a", "a", "a", "a", "a", "a", "a", "a", "a",
            "a", "a", "a", "q">>),
    Bytes(<<"[", "1", ",", "1", ",", "1", ",", "1", ",", "1", ",", "1", ",", "1", "]">>),
    Bytes(<<"[", "1", ",", "1", ",", "1", ",", "1", ",", "1", ",", "1", ",", "1", ",",
            "1", ",", "1", "]">>),
    Bytes(<<"1", "E", "2">>),
    Bytes(<<"1", "e", "2">>),
    Bytes(<<"-", "1", "2", ".", "5", "e", "-", "1">>),
    Bytes(<<"[", "-", "]">>),
    Bytes(<<"[", "0", "1", "]">>),
    Bytes(<<"[", "1", ".", "5", ",", "-", "0", "]">>),
    Bytes(<<"[", "]", "NUL", "/">>),
    Bytes(<<"[", "1", " ", "/", "/", "a", "NUL", "b", "\n", "]">>),
    Bytes(<<"[", "1", " ", "/", "*", "a", "NUL", "b", "*", "/", "]">>),
    Bytes(<<"[", "]", "/", "*", "/">>),
    Bytes(<<"[", "]", "/", "*", "c", "*", "/", " ", "x", "*", "/">>),
    Bytes(<<"[", "]", "/", "/", "c", "\r", "x">>),
    Bytes(<<"[", "1", ".", "5", ",", "q", "a", "q", ",", "{", "q", "a", "q", ":", "-",
            "2", "e", "1", "}", ",", "n", "u", "l", "l", "]">>),
    Bytes(<<"[", "1", ",", "]">>),
    Bytes(<<"[", "[", "]", ",", " ", "]">>),
    Bytes(<<"{", "q", "a", "q", ":", "1", ",", "}">>),
    Bytes(<<"[", "1", ",", ",", "2", "]">>),
    Bytes(<<"[", ",", "1", "]">>),
    Bytes(<<"[", "1", " ", "2", "]">>),
    Bytes(<<"[", "q", "a", "q", " ", "q", "b", "q", "]">>),
    Bytes(<<"{", "q", "a", "q", ":", "1", " ", "q", "b", "q", ":", "2", "}">>),
    Bytes(<<"{", "q", "a", "q", ":", "1", ",", ",", "q", "b", "q", ":", "2", "}">>),
    Bytes(<<"{", ",", "q", "a", "q", ":", "1", "}">>),
    Bytes(<<"{", "q", "a", "q", ":", "1", ",", "q", "b", "q", ":", "2", "}">>),
    Bytes(<<"[", "q", "a", ",", "\\", "q", ",", "q", ",", "t", "r", "u", "e", " ", ",",
            "1", " ", "/", "*", ",", "*", "/", ",", "[", "]", "]">>),
    Bytes(<<"{", "q", "a", "q", ":", "1", ",", "q", "a", "q", ":", "1", ",", "q", "a",
            "q", ":", "1", ",", "q", "a", "q", ":", "1", ",", "q", "a", "q", ":", "1",
            "}">>),
    Bytes(<<"{", "q", "a", "q", ":", "1", ",", "q", "a", "q", ":", "1", ",", "q", "a",
            "q", ":", "1", ",", "q", "a", "q", ":", "1", ",", "q", "a", "q", ":", "1",
            ",", "q", "a", "q", ":", "1", "}">>),
    Bytes(<<"{", "q", "q", ":", "1", ",", "q", "q", ":", "1", ",", "q", "q", ":", "1",
            ",", "q", "q", ":", "1", ",", "q", "q", ":", "1", ",", "q", "q", ":", "1",
            ",", "q", "q", ":", "1", "}">>)
  }

DefaultSettings ==
    [max_memory |-> 0, allow_comments |-> FALSE, custom |-> FALSE,
     value_extra |-> 0, fail_at |-> 0, error_buf |-> TRUE]

\* the calls the model makes: a text and the settings it is parsed with
Calls ==
    {[text |-> t, settings |-> DefaultSettings] :
        t \in StructTexts \cup NumTexts \cup EscapeTexts}
    \cup {[text |-> t, settings |-> [DefaultSettings EXCEPT !.allow_comments = c]] :
            t \in OtherTexts \cup TreeTexts, c \in BOOLEAN}
    \cup {[text |-> t, settings |-> [DefaultSettings EXCEPT !.fail_at = k,
                                       !.custom = TRUE, !.error_buf = e]] :
            t \in TreeTexts, k \in 0..MaxFailAt, e \in BOOLEAN}
    \cup {[text |-> t, settings |-> [DefaultSettings EXCEPT !.max_memory = q,
                                       !.value_extra = x]] :
            t \in TreeTexts, q \in 1..MaxQuota, x \in {0, MaxValueExtra}}

\* the bytes that may lie just past the end of the caller's buffer
BeyondBytes == {0, 101, 108}

ZeroHist ==
    [requested |-> 0, guard_refused |-> 0, quota_refused |-> 0, calls |-> 0,
     invoked |-> 0, granted |-> 0, overread |-> FALSE, oob_write |-> FALSE,
     oob_string |-> FALSE, disagree |-> FALSE, counted |-> <<>>, built |-> <<>>,
     decoded |-> <<>>, pairs |-> <<>>, done_at |-> -1,
     capacity |-> <<>>, filled |-> <<>>, closed |-> <<>>, shell_overrun |-> FALSE,
     starts |-> <<>>, count_end |-> -1,
     comment_from |-> -1, comments |-> <<>>, in_string |-> {},
     open |-> <<>>, mismatch |-> FALSE,
     seen |-> {}, again |-> {}, thrice |-> {},
     free_null |-> 0, free_bad |-> 0, uaf |-> FALSE, crash |-> "",
     payloads |-> <<>>]

NoString == [buf |-> 0, off |-> 0]

(* A tree as a value: what a caller can read from a node and below it.     *)
(* Every field is present for every type, unused ones at their zero.       *)
ZeroTree == [type |-> "none", integer |-> 0, dbl |-> [m |-> 0, e |-> 0],
             boolean |-> FALSE, bytes |-> <<>>, names |-> <<>>, items |-> <<>>]

\* the outcome of an earlier call of the same behaviour: none yet
NoOutcome == [done |-> FALSE, ok |-> FALSE, tree |-> ZeroTree]

\* what parse has returned, and what the caller keeps of an earlier call
NoResult == [ret |-> "none", error_buf |-> "untouched", pair |-> "none",
             other |-> <<>>, in_scope |-> TRUE, first |-> NoOutcome]

\* the start of a pass (lines 277-286)
StartPass(m) ==
    [m EXCEPT !.top = 0, !.root = 0, !.flags = {"flag_seek_value"},
              !.state.cur_line = 1, !.string = NoString, !.string_length = 0,
              !.num = ZeroNum, !.state.ptr = json,
              !.hist.seen = {}, !.hist.again = {}]

\* json::parse up to the first iteration of the first pass (lines 251-286), for a call of S
InitOf(S) ==
    /\ \E c \in S : input = c.text /\ settings = c.settings
    /\ beyond = -1
    /\ pc = "scan"
    /\ state = [used_memory |-> 0, first_pass |-> 1, ptr |-> json,
                cur_line |-> 1, cur_col |-> 0]
    /\ flags = {"flag_seek_value"}
    /\ top = 0 /\ root = 0 /\ alloc = 0
    /\ string = NoString
    /\ string_length = 0
    /\ num = ZeroNum
    /\ error = [msg |-> "", line |-> 0, col |-> 0, at |-> 0]
    /\ nodes = <<>>
    /\ heap = <<>>
    /\ hist = ZeroHist
    /\ result = NoResult
    /\ value = 0
    /\ free_with = "none"

Init == InitOf(Calls)

(* the calls followed to their end: texts that end in a line comment, in a *)
(* number, inside a block comment, inside a keyword; texts that trip the   *)
(* overflow guard; trees built and released with an allocator that fails   *)
(* at any one of its calls, or under a memory ceiling                      *)
LiveCalls ==
    {[text |-> t, settings |-> [DefaultSettings EXCEPT !.allow_comments = TRUE]] :
        t \in {Bytes(<<"1", " ", "/", "/", " ", "c">>),
               Bytes(<<"1", "/", "/", "c", "\r", "\n">>),
               Bytes(<<"[", "1", "/", "/", "\n", "]">>),
               Bytes(<<"[", "]", "/", "*", " ", "c">>),
               Bytes(<<"[", "]", "/", "/", "c", "\r", "x">>),
               Bytes(<<"[", "1", " ", "/", "/", "a", "NUL", "b", "\n", "]">>)}}
    \cup {[text |-> t, settings |-> DefaultSettings] :
            t \in {Bytes(<<"-", "1", "2", ".", "5", "e", "-", "1">>),
                   Bytes(<<"t", "r", "u">>),
                   Bytes(<<"[", "-", "]">>),
                   Bytes(<<"{", "q", "a", "q", ":", "{", "q", "b", "q", ":", "[", "q", "c",
                           "q", "]", "}", "}">>),
                   Bytes(<<"q", "a", "\\", "u", "0", "0", "4", "1", "\\", "n", "q">>),
                   Bytes(<<"q", "a", "\\", "u", "0", "0", "4">>),
                   Bytes(<<"[", "1", ",", "1", ",", "1", ",", "1", ",", "1", ",", "1", ",",
                           "1", ",", "1", ",", "1", "]">>)}}
    \cup {[text |-> t, settings |-> [DefaultSettings EXCEPT !.fail_at = k,
                                       !.custom = TRUE]] :
            t \in {Bytes(<<"[", "1", ",", "q", "a", "b", "q", ",", "[", "]", "]">>),
                   Bytes(<<"{", "q", "a", "q", ":", "1", ",", "q", "b", "q", ":", "[", "1",
                           ",", "2", ",", "3", "]", "}">>)},
            k \in 0..MaxFailAt}
    \cup {[text |-> Bytes(<<"[", "q", "a", "q", "]">>),
           settings |-> [DefaultSettings EXCEPT !.max_memory = q]] : q \in {8, 16, 24, 26}}

InitLive == InitOf(LiveCalls)

----------------------------------------------------------------------------
(* Actions *)

\* what follows an iteration: ++state.ptr and the next one, the end of the pass, e_failed
AfterIteration(r) ==
    /\ Assign(IF r.ctl \in {"continue", "fall"}
              THEN [r EXCEPT !.state.ptr = @ + 1] ELSE r)
    /\ pc' = CASE r.ctl = "break" -> "pass_end"
               [] r.ctl = "e_failed" -> "e_failed"
               [] OTHER -> "scan"
    /\ beyond' = IF beyond = -1 /\ r.hist.overread THEN r.x ELSE beyond
    /\ UNCHANGED <<input, settings, result, value, free_with>>

(* One iteration.  What lies past the buffer is one of BeyondBytes, fixed   *)
(* by the first read of it.                                                  *)
Iterate ==
    \E x \in (IF beyond = -1 THEN BeyondBytes ELSE {beyond}) :
        \E r \in {LoopBody([M EXCEPT !.x = x])} : AfterIteration(r)

Scanning(mode) ==
    /\ pc = "scan"
    /\ mode = IF "flag_string" \in flags THEN "string"
              ELSE IF InComment(M, CurByte(M)) THEN "comment"
              ELSE IF "flag_done" \in flags THEN "done"
              ELSE IF "flag_seek_value" \in flags THEN "seek_value"
              ELSE IF nodes[top].type = "json_object" THEN "object"
              ELSE "number"

\* an iteration inside a string or a key (lines 289-432)
ScanString == Scanning("string") /\ Iterate

\* an iteration inside or at the start of a comment (lines 434-491)
ScanComment == Scanning("comment") /\ Iterate

\* an iteration after the root value is complete (lines 493-507)
ScanDone == Scanning("done") /\ Iterate

\* an iteration where a value, a comma or a colon is expected (lines 509-666)
ScanSeekValue == Scanning("seek_value") /\ Iterate

\* an iteration directly inside an object (lines 669-705)
ScanObject == Scanning("object") /\ Iterate

\* an iteration inside a number (lines 707-804)
ScanNumber == Scanning("number") /\ Iterate

\* the end of a pass: alloc = root, then the next pass or return root (lines 855-858, 277)
EndPass ==
    /\ pc = "pass_end"
    /\ IF state.first_pass = 1
       THEN /\ \E r \in {StartPass([M EXCEPT !.alloc = root, !.state.first_pass = 0,
                                            !.hist.count_end = state.ptr,
                                            !.hist.capacity =
                                                [k \in DOMAIN nodes |-> nodes[k].length]])} :
                   Assign(r)
            /\ pc' = "scan"
            /\ UNCHANGED result
       ELSE /\ Assign([M EXCEPT !.alloc = root, !.state.first_pass = -1])
            /\ pc' = "returned"
            /\ result' = [result EXCEPT !.ret = "tree"]
    /\ UNCHANGED <<input, settings, beyond, value, free_with>>

ReportErrorMutant ==
    /\ pc = "e_failed"
    /\ result' = [result EXCEPT !.error_buf =
                    IF ~settings.error_buf THEN @
                    ELSE IF error.msg # "" THEN error.msg ELSE "Unknown error"]
    /\ pc' = "rollback"
    /\ UNCHANGED <<input, settings, beyond, state, flags, top, root, alloc, string,
                   string_length, num, error, nodes, heap, hist, value, free_with>>

\* e_failed: the message, and the head of the chain to roll back (lines 872-881)
ReportError ==
    /\ pc = "e_failed"
    /\ result' = [result EXCEPT !.error_buf =
                    IF ~settings.error_buf THEN @
                    ELSE IF error.msg # "" THEN error.msg ELSE "Unknown error"]
    /\ alloc' = IF state.first_pass # 0 THEN root ELSE alloc
    /\ pc' = "rollback"
    /\ UNCHANGED <<input, settings, beyond, state, flags, top, root, string,
                   string_length, num, error, nodes, heap, hist, value, free_with>>

\* one iteration of the rollback loop (lines 883-887)
RollbackStep ==
    /\ pc = "rollback"
    /\ alloc # 0
    /\ \E r \in {mem_free(M, alloc)} :
           Assign([r EXCEPT !.top = nodes[alloc].reserved,
                            !.alloc = nodes[alloc].reserved])
    /\ UNCHANGED <<input, settings, beyond, pc, result, value, free_with>>

\* json::value_free up to its loop (lines 902-907), given settings `with`
EnterValueFree(with, where, done) ==
    IF root = 0
    THEN /\ pc' = done
         /\ UNCHANGED <<nodes, value, free_with>>
    ELSE /\ pc' = where
         /\ nodes' = [nodes EXCEPT ![root].parent = 0]
         /\ value' = root
         /\ free_with' = with

\* the end of the rollback: the teardown of the tree, or return nullptr (lines 889-892)
RollbackDone ==
    /\ pc = "rollback"
    /\ alloc = 0
    /\ IF state.first_pass = 0
       THEN /\ EnterValueFree("state.settings", "teardown", "returned")
            /\ result' = IF root = 0 THEN [result EXCEPT !.ret = "nullptr"] ELSE result
       ELSE /\ pc' = "returned"
            /\ result' = [result EXCEPT !.ret = "nullptr"]
            /\ UNCHANGED <<nodes, value, free_with>>
    /\ UNCHANGED <<input, settings, beyond, state, flags, top, root, alloc, string,
                   string_length, num, error, heap, hist>>

\* the caller releases the tree parse returned: value_free(tree) (lines 942-946)
CallValueFree ==
    /\ pc = "returned"
    /\ result.ret = "tree"
    /\ ~settings.custom
    /\ EnterValueFree("default_free", "value_free", "freed")
    /\ UNCHANGED <<input, settings, beyond, state, flags, top, root, alloc, string,
                   string_length, num, error, heap, hist, result>>

\* the caller releases the tree parse returned: value_free(settings, tree) (line 900)
CallValueFreeWithSettings ==
    /\ pc = "returned"
    /\ result.ret = "tree"
    /\ EnterValueFree("settings", "value_free", "freed")
    /\ UNCHANGED <<input, settings, beyond, state, flags, top, root, alloc, string,
                   string_length, num, error, heap, hist, result>>

\* settings.mem_free of the settings value_free was given is a null function pointer
NoFreeFunction == free_with = "settings" /\ ~settings.custom

\* one iteration of the loop of value_free (lines 908-939)
FreeStep ==
    /\ pc \in {"teardown", "value_free"}
    /\ value # 0
    /\ \E r \in {FreeIteration(M, value)} :
       LET calls == r.hist.free_null + r.hist.free_bad + Cardinality({p \in DOMAIN r.heap :
                        r.heap[p].frees # heap[p].frees})
                    # hist.free_null + hist.free_bad
       IN IF r.ctl = "crash" \/ (calls /\ NoFreeFunction)
          THEN /\ pc' = "crashed"
               /\ hist' = [hist EXCEPT !.crash = IF r.ctl = "crash" THEN r.hist.crash
                                                 ELSE "null mem_free"]
               /\ UNCHANGED <<nodes, heap, value>>
          ELSE /\ nodes' = r.nodes
               /\ heap' = r.heap
               /\ hist' = r.hist
               /\ value' = r.ret
               /\ pc' = pc
    /\ UNCHANGED <<input, settings, beyond, state, flags, top, root, alloc, string,
                   string_length, num, error, result, free_with>>

\* value_free returns (line 940); inside parse, parse then returns nullptr (line 892)
FreeDone ==
    /\ pc \in {"teardown", "value_free"}
    /\ value = 0
    /\ pc' = IF pc = "teardown" THEN "returned" ELSE "freed"
    /\ result' = IF pc = "teardown" THEN [result EXCEPT !.ret = "nullptr"] ELSE result
    /\ UNCHANGED <<input, settings, beyond, state, flags, top, root, alloc, string,
                   string_length, num, error, nodes, heap, hist, value, free_with>>

Next ==
    \/ ScanString
    \/ ScanComment
    \/ ScanDone
    \/ ScanSeekValue
    \/ ScanObject
    \/ ScanNumber
    \/ EndPass
    \/ ReportError
    \/ RollbackStep
    \/ RollbackDone
    \/ CallValueFree
    \/ CallValueFreeWithSettings
    \/ FreeStep
    \/ FreeDone

Spec == Init /\ [][Next]_vars

(* The calls run to their end: the code is sequential, so a step that can  *)
(* be taken is taken; the caller releases a tree it was given.             *)
SpecLive == InitLive /\ [][Next]_vars /\ WF_vars(Next)

----------------------------------------------------------------------------
(* Properties *)

\* json::parse returned nullptr
Failed == pc = "returned" /\ result.ret = "nullptr"

\* json::parse returned the root, and the caller has not released it yet
Succeeded == pc = "returned" /\ result.ret = "tree"

\* the caller's value_free is running or has run
Releasing == free_with \in {"default_free", "settings"}

HasByte(b) == \E i \in DOMAIN input : input[i] = b

SetMax(S) == CHOOSE x \in S : \A y \in S : y <= x

(* C1: when json::parse returns failure, every allocation granted during   *)
(* the call has been passed to mem_free exactly once before it returns.    *)
FailureReleasesEverything ==
    Failed => \A p \in DOMAIN heap : heap[p].frees = 1

(* C2: after a successful parse, value_free on the root passes every       *)
(* granted allocation to mem_free exactly once, never one twice, reads no  *)
(* node it has freed, frees nothing that is no allocation, and stops.      *)
ValueFreeReleasesEachOnce ==
    /\ Releasing => /\ \A p \in DOMAIN heap : heap[p].frees <= 1
                    /\ ~hist.uaf
                    /\ hist.free_bad = 0
    /\ pc = "freed" => /\ value = 0
                       /\ \A p \in DOMAIN heap : heap[p].frees = 1
    /\ pc = "crashed" /\ Releasing => hist.crash = "null mem_free"

\* a tree with a string, an array buffer and an object buffer was released
ReleasedStringArrayObject ==
    /\ pc = "freed"
    /\ \E p, q, r \in DOMAIN heap :
          /\ heap[p].kind = "string"
          /\ heap[q].kind = "array"
          /\ heap[r].kind = "object"

(* C3: with a ceiling M > 0 the bytes asked of mem_alloc, and so the bytes *)
(* granted, never exceed M; a request that takes the requested total above *)
(* M is refused, mem_alloc is not called for it, and the parse fails with  *)
(* the allocation-failure error.  With M = 0 the quota refuses nothing.    *)
QuotaIsKept ==
    /\ settings.max_memory > 0 =>
          /\ hist.invoked <= settings.max_memory
          /\ hist.granted <= settings.max_memory
          /\ hist.requested > settings.max_memory =>
                hist.quota_refused + hist.guard_refused > 0
    /\ hist.quota_refused > 0 =>
          /\ hist.requested > settings.max_memory
          /\ hist.quota_refused = 1
          /\ error.msg = "Memory allocation failure"
          /\ pc \notin {"scan", "pass_end"}
          /\ result.ret # "tree"
    /\ settings.max_memory = 0 => hist.quota_refused = 0

\* a payload of the building pass was refused by the quota after shells were granted
QuotaRefusedPayload ==
    /\ hist.quota_refused > 0
    /\ hist.granted > 0
    /\ state.first_pass = 0
    /\ Failed

\* every node of the tree is live and has the payload its kind needs, filled
FullyBuilt ==
    \A k \in DOMAIN nodes :
        /\ heap[k].frees = 0
        /\ nodes[k].type = "json_string" =>
              /\ nodes[k].values \in DOMAIN heap
              /\ heap[nodes[k].values].frees = 0
              /\ Len(heap[nodes[k].values].bytes) = nodes[k].length + 1
              /\ \A i \in 1..(nodes[k].length + 1) :
                    heap[nodes[k].values].bytes[i] # Uninit
        /\ nodes[k].type \in {"json_array", "json_object"} /\ nodes[k].length > 0 =>
              /\ nodes[k].values \in DOMAIN heap
              /\ heap[nodes[k].values].frees = 0
              /\ Len(heap[nodes[k].values].slots) = nodes[k].length
              /\ \A i \in 1..nodes[k].length :
                    heap[nodes[k].values].slots[i] \in DOMAIN nodes

\* what holds of the calls of json::parse that return
ReturnsTreeOrDiagnostic ==
    /\ pc = "returned" => result.ret \in {"tree", "nullptr"}
    /\ Succeeded => /\ root # 0
                    /\ error.msg = ""
                    /\ result.error_buf = "untouched"
                    /\ FullyBuilt
    /\ Failed /\ settings.error_buf => result.error_buf \notin {"", "untouched"}

(* C4: json::parse ends in one of two ways: it returns the root of a fully *)
(* built tree and reports no error, or it returns nullptr with a non-empty *)
(* message in error_buf when one was given.  It ends in no other way.      *)
ParseHasTwoOutcomes ==
    /\ ReturnsTreeOrDiagnostic
    /\ pc = "crashed" => free_with # "state.settings"

\* the index where the line holding the byte at index `at` starts
LineStart(at) ==
    IF {i \in 1..Min(at, Len(input)) : input[i] = 10} = {} THEN json
    ELSE SetMax({i \in 1..Min(at, Len(input)) : input[i] = 10})

\* the 1-based column of the byte at index `at`
ColumnOf(at) == at - LineStart(at) + 1

(* C5: an error that carries a position reports the 1-based column of the  *)
(* offending byte: the number of bytes from the start of its line up to    *)
(* and including it.                                                       *)
ErrorReportsColumn ==
    error.msg \notin {"", "Memory allocation failure"} =>
        error.col = ColumnOf(error.at)

(* C6: a parse succeeds only if every byte after the root value, up to the *)
(* length the caller gave, is whitespace (comments being disabled); any    *)
(* other byte there, the zero byte included, fails it.                     *)
OnlyWhitespaceAfterRoot ==
    Succeeded /\ ~settings.allow_comments =>
        \A i \in (hist.done_at + 2)..Len(input) : input[i] \in {32, 9, 10, 13}

IsHighSurrogate(w) == w >= 55296 /\ w <= 56319
IsLowSurrogate(w) == w >= 56320 /\ w <= 57343

(* C7: in an accepted text every \u escape in the surrogate range is the   *)
(* high half of a pair whose second escape is a low surrogate; no other    *)
(* use of a surrogate escape is accepted.                                  *)
SurrogatesArePaired ==
    Succeeded =>
        \A k \in DOMAIN hist.pairs :
            /\ IsHighSurrogate(hist.pairs[k].uchar)
            /\ IsLowSurrogate(hist.pairs[k].uchar2)

\* the standard value of the pair (hi, lo)
StandardCodePoint(hi, lo) == 65536 + (hi - 55296) * 1024 + (lo - 56320)

\* the standard UTF-8 encoding of a code point
StandardUtf8(cp) ==
    IF cp < 128 THEN <<cp>>
    ELSE IF cp < 2048 THEN <<192 + (cp \div 64), 128 + (cp % 64)>>
    ELSE IF cp < 65536
    THEN <<224 + (cp \div 4096), 128 + ((cp \div 64) % 64), 128 + (cp % 64)>>
    ELSE <<240 + (cp \div 262144), 128 + ((cp \div 4096) % 64),
           128 + ((cp \div 64) % 64), 128 + (cp % 64)>>

\* every code point decoded so far is written as its standard UTF-8 encoding
EncodesStandardUtf8 ==
    \A k \in DOMAIN hist.decoded :
        Utf8Encode(hist.decoded[k]) = StandardUtf8(hist.decoded[k])

(* C8: a pair of a high and a low surrogate decodes to the standard code   *)
(* point 0x10000 + ((hi - 0xD800) << 10) + (lo - 0xDC00), and every        *)
(* decoded code point is written as its standard UTF-8 encoding.           *)
PairsDecodeToStandard ==
    /\ \A k \in DOMAIN hist.pairs :
          IsHighSurrogate(hist.pairs[k].uchar) /\ IsLowSurrogate(hist.pairs[k].uchar2) =>
              hist.pairs[k].combined =
                  StandardCodePoint(hist.pairs[k].uchar, hist.pairs[k].uchar2)
    /\ EncodesStandardUtf8

\* the whole text is made of the bytes of number literals
NumberText == input # <<>> /\ \A i \in DOMAIN input : input[i] \in (48..57) \cup {45, 43, 46, 101, 69}

\* where the digits of the text start: after the sign, if any
FirstDigit == IF input[1] = 45 THEN 2 ELSE 1

RECURSIVE Accumulate(_, _)
Accumulate(i, acc) ==
    IF i > Len(input) THEN acc ELSE Accumulate(i + 1, acc * 10 + (input[i] - 48))

\* the x10 + digit accumulation of the digits, the sign applied last
SignedAccumulation ==
    IF input[1] = 45 THEN -Accumulate(2, 0) ELSE Accumulate(1, 0)

HasDotOrExponent == HasByte(46) \/ HasByte(101) \/ HasByte(69)

LeadingZeroThenDigit ==
    /\ Len(input) > FirstDigit
    /\ input[FirstDigit] = 48
    /\ isdigit(input[FirstDigit + 1])

DotWithoutDigit ==
    \E i \in DOMAIN input :
        /\ input[i] = 46
        /\ \/ i = 1
           \/ i = Len(input)
           \/ ~isdigit(input[i - 1])
           \/ ~isdigit(input[i + 1])

ExponentWithoutDigit ==
    \E i \in DOMAIN input :
        /\ input[i] \in {101, 69}
        /\ ~ \/ i + 1 <= Len(input) /\ isdigit(input[i + 1])
             \/ /\ i + 2 <= Len(input)
                /\ input[i + 1] \in {43, 45}
                /\ isdigit(input[i + 2])

(* C9: a literal with no `.` and no exponent gives an integer node holding *)
(* the x10 + digit accumulation with the sign applied last (0 for `0` and  *)
(* `-0`); one with `.` or `e`/`E` gives a double node (100 for `1e2` and   *)
(* `1E2`); a leading 0 before a digit, a `.` without a digit on both       *)
(* sides, and an exponent without a digit all fail.                        *)
NumbersAreClassified ==
    pc = "returned" /\ NumberText =>
        /\ result.ret = "tree" /\ ~HasDotOrExponent =>
              /\ nodes[root].type = "json_integer"
              /\ nodes[root].integer = SignedAccumulation
        /\ result.ret = "tree" /\ HasDotOrExponent => nodes[root].type = "json_double"
        /\ input \in {<<48>>, <<45, 48>>} =>
              result.ret = "tree" /\ nodes[root].integer = 0
        /\ input \in {<<49, 101, 50>>, <<49, 69, 50>>} =>
              result.ret = "tree" /\ nodes[root].dbl = [m |-> 1, e |-> 2]
        /\ LeadingZeroThenDigit => result.ret = "nullptr"
        /\ DotWithoutDigit => result.ret = "nullptr"
        /\ ExponentWithoutDigit => result.ret = "nullptr"

\* -12.5e-1 was parsed to the double -1.25
ParsedNegativeFractionExponent ==
    /\ Succeeded
    /\ input = <<45, 49, 50, 46, 53, 101, 45, 49>>
    /\ nodes[root].type = "json_double"
    /\ nodes[root].dbl = [m |-> -125, e |-> -2]

(* C10: for every string and key the building pass writes as many bytes as *)
(* the counting pass counted: each content write is at an index below the  *)
(* count, the terminator is written at the count, and every write lands    *)
(* inside the buffer the string was given.                                 *)
PassesAgreeOnStrings ==
    /\ ~hist.disagree
    /\ ~hist.oob_string
    /\ \A k \in DOMAIN hist.built :
          k <= Len(hist.counted) /\ hist.built[k] = hist.counted[k]

\* a string of a plain byte, a surrogate pair and a plain byte was built in 6 bytes
BuiltStringWithPair ==
    /\ Succeeded
    /\ hist.pairs # <<>>
    /\ hist.built = <<6>>
    /\ nodes[root].length = 6

----------------------------------------------------------------------------
(* The building pass and the tree it returns *)

\* the building pass is scanning, or has just ended
Building == state.first_pass = 0 /\ pc \in {"scan", "pass_end"}

\* node k has been taken off the chain by new_value in the building pass
Built(k) == state.first_pass <= 0 /\ (alloc = 0 \/ k < alloc)

IsContainer(k) == nodes[k].type \in {"json_array", "json_object"}

(* C11: in the building pass, the length of every array and object that    *)
(* new_value has built is a cursor between 0 and the capacity counted in   *)
(* the counting pass; every child slot and entry name is written at an     *)
(* index below that capacity, at the cursor, inside the buffer; a          *)
(* container closes with length equal to its capacity; and one iteration   *)
(* of the scan loop leaves a cursor alone or adds one to it.               *)
CursorWithinCapacity ==
    /\ ~hist.oob_write
    /\ \A i \in DOMAIN hist.filled :
          /\ hist.filled[i].at < hist.capacity[hist.filled[i].node]
          /\ hist.filled[i].at >= 0
    /\ \A i \in DOMAIN hist.closed :
          hist.closed[i].length = hist.capacity[hist.closed[i].node]
    /\ Building =>
          \A k \in DOMAIN nodes :
              Built(k) /\ IsContainer(k) => nodes[k].length <= hist.capacity[k]

CursorStep ==
    Building /\ pc' = "scan" =>
        \A k \in DOMAIN nodes :
            IsContainer(k) /\ Built(k) =>
                nodes'[k].length \in {nodes[k].length, nodes[k].length + 1}

CursorStartsAtZero ==
    Building /\ pc' = "scan" /\ alloc' # alloc /\ IsContainer(alloc) =>
        nodes'[alloc].length = 0

FillCursor == []CursorWithinCapacity /\ [][CursorStep /\ CursorStartsAtZero]_vars

\* the building pass closed an array of three elements after filling its slots
ClosedArrayOfThree ==
    /\ Succeeded
    /\ \E i \in DOMAIN hist.closed :
          /\ hist.closed[i].length = 3
          /\ nodes[hist.closed[i].node].type = "json_array"
          /\ Cardinality({j \in DOMAIN hist.filled :
                            hist.filled[j].node = hist.closed[i].node}) = 3

\* the nodes whose parent is k; node numbers follow the order of the values in the source
Children(k) == {c \in DOMAIN nodes : nodes[c].parent = k}

\* the child in slot i (from 1) of container k of a returned tree
SlotAt(k, i) == heap[nodes[k].values].slots[i]

\* the bytes of the name of entry i (from 1) of object k
NameAt(k, i) ==
    LET buf == heap[nodes[k].values]
    IN [j \in 1..buf.names[i].name_length |-> buf.bytes[buf.names[i].name + j]]

\* entry i of object k has the given name and an integer value
EntryIs(k, i, name, integer) ==
    /\ NameAt(k, i) = name
    /\ nodes[SlotAt(k, i)].type = "json_integer"
    /\ nodes[SlotAt(k, i)].integer = integer

\* array k holds exactly the given integers, in order
ArrayIs(k, ints) ==
    /\ nodes[k].type = "json_array"
    /\ nodes[k].length = Len(ints)
    /\ \A i \in DOMAIN ints :
          /\ nodes[SlotAt(k, i)].type = "json_integer"
          /\ nodes[SlotAt(k, i)].integer = ints[i]

(* C12: in a returned tree the length of a container is the number of its  *)
(* members in the source, slot i holds the i-th of them (the children of a *)
(* container in source order), and entry i of an object carries the name   *)
(* and value of the i-th member: {"a":1,"a":2} has two entries named a     *)
(* with 1 and 2, {} has length 0, {"a":1,"b":[1,2,3]} has a -> 1 and       *)
(* b -> the array 1, 2, 3.                                                 *)
MembersInSourceOrder ==
    Succeeded =>
        /\ \A k \in DOMAIN nodes :
              IsContainer(k) =>
                  /\ nodes[k].length = Cardinality(Children(k))
                  /\ \A i \in 1..nodes[k].length :
                        /\ SlotAt(k, i) \in Children(k)
                        /\ Cardinality({c \in Children(k) : c < SlotAt(k, i)}) = i - 1
                  /\ nodes[k].type = "json_object" =>
                        \A i \in 1..nodes[k].length :
                            heap[nodes[k].values].names[i].name_length \in Nat
        /\ input = Bytes(<<"{", "}">>) =>
              nodes[root].type = "json_object" /\ nodes[root].length = 0
        /\ input = Bytes(<<"{", "q", "a", "q", ":", "1", ",", "q", "a", "q", ":", "2", "}">>) =>
              /\ nodes[root].type = "json_object" /\ nodes[root].length = 2
              /\ EntryIs(root, 1, <<97>>, 1)
              /\ EntryIs(root, 2, <<97>>, 2)
        /\ input = Bytes(<<"{", "q", "a", "q", ":", "1", ",", "q", "b", "q", ":", "[", "1",
                           ",", "2", ",", "3", "]", "}">>) =>
              /\ nodes[root].type = "json_object" /\ nodes[root].length = 2
              /\ EntryIs(root, 1, <<97>>, 1)
              /\ NameAt(root, 2) = <<98>>
              /\ ArrayIs(SlotAt(root, 2), <<1, 2, 3>>)

\* {"a":1,"a":2} was parsed and its two entries are distinct nodes
KeptBothDuplicates ==
    /\ Succeeded
    /\ nodes[root].type = "json_object"
    /\ nodes[root].length = 2
    /\ NameAt(root, 1) = NameAt(root, 2)
    /\ SlotAt(root, 1) # SlotAt(root, 2)

\* the (container, slot) pairs of the returned tree that hold node k
ReferencesTo(k) ==
    {<<q, i>> \in (DOMAIN nodes) \X (1..UINT_MAX) :
        /\ IsContainer(q)
        /\ i <= nodes[q].length
        /\ SlotAt(q, i) = k}

\* following parent from k reaches the root in at most n steps
RECURSIVE ReachesRoot(_, _)
ReachesRoot(k, n) ==
    IF k = root THEN TRUE
    ELSE IF n = 0 \/ k = 0 THEN FALSE
    ELSE ReachesRoot(nodes[k].parent, n - 1)

(* C13: in a returned tree the root's parent is null; every other node's   *)
(* parent is an array or object, which holds the node in exactly one slot, *)
(* and no other container holds it; following parent from any node reaches *)
(* the root.                                                               *)
TreeShape ==
    Succeeded =>
        /\ nodes[root].parent = 0
        /\ ReferencesTo(root) = {}
        /\ \A k \in DOMAIN nodes \ {root} :
              /\ nodes[k].parent \in DOMAIN nodes
              /\ IsContainer(nodes[k].parent)
              /\ Cardinality(ReferencesTo(k)) = 1
              /\ \A r \in ReferencesTo(k) : r[1] = nodes[k].parent
              /\ ReachesRoot(k, Len(nodes))

\* a returned tree three levels deep: a string in an array in an object in the root
ReturnedNestedTree ==
    /\ Succeeded
    /\ \E k \in DOMAIN nodes :
          /\ nodes[k].type = "json_string"
          /\ nodes[k].parent # 0
          /\ nodes[nodes[k].parent].type = "json_array"
          /\ nodes[nodes[k].parent].parent # 0
          /\ nodes[nodes[nodes[k].parent].parent].type = "json_object"
          /\ nodes[nodes[nodes[k].parent].parent].parent = root
          /\ root # nodes[nodes[k].parent].parent

----------------------------------------------------------------------------
(* Two calls on related texts: the text, then the text it was derived from *)

\* the bytes of string node k of a returned tree
StringOf(k) == [j \in 1..nodes[k].length |-> heap[nodes[k].values].bytes[j]]

\* the tree below node k as a caller reads it
RECURSIVE TreeOf(_)
TreeOf(k) ==
    CASE nodes[k].type = "json_array" ->
           [ZeroTree EXCEPT !.type = "json_array",
                            !.items = [i \in 1..nodes[k].length |-> TreeOf(SlotAt(k, i))]]
      [] nodes[k].type = "json_object" ->
           [ZeroTree EXCEPT !.type = "json_object",
                            !.names = [i \in 1..nodes[k].length |-> NameAt(k, i)],
                            !.items = [i \in 1..nodes[k].length |-> TreeOf(SlotAt(k, i))]]
      [] nodes[k].type = "json_string" ->
           [ZeroTree EXCEPT !.type = "json_string", !.bytes = StringOf(k)]
      [] nodes[k].type = "json_integer" ->
           [ZeroTree EXCEPT !.type = "json_integer", !.integer = nodes[k].integer]
      [] nodes[k].type = "json_double" ->
           [ZeroTree EXCEPT !.type = "json_double", !.dbl = nodes[k].dbl]
      [] nodes[k].type = "json_boolean" ->
           [ZeroTree EXCEPT !.type = "json_boolean", !.boolean = nodes[k].boolean]
      [] OTHER -> [ZeroTree EXCEPT !.type = nodes[k].type]

\* what the call that has returned gave its caller
Outcome ==
    [done |-> TRUE, ok |-> result.ret = "tree",
     tree |-> IF result.ret = "tree" THEN TreeOf(root) ELSE ZeroTree]

RECURSIVE Concat(_)
Concat(ts) == IF ts = <<>> THEN <<>> ELSE Head(ts) \o Concat(Tail(ts))

\* texts accepted without comments, token by token
TokenTexts == {
    << <<"{">>, <<"q", "a", "q">>, <<":">>, <<"1">>, <<"}">> >>,
    << <<"[">>, <<"1">>, <<",">>, <<"q", "x", "q">>, <<",">>, <<"t", "r", "u", "e">>,
       <<",">>, <<"[">>, <<"]">>, <<",">>, <<"{">>, <<"}">>, <<"]">> >>,
    << <<"{">>, <<"q", "a", "q">>, <<":">>, <<"[">>, <<"1">>, <<",">>, <<"2">>, <<"]">>,
       <<",">>, <<"q", "b", "q">>, <<":">>, <<"n", "u", "l", "l">>, <<"}">> >>,
    << <<"[">>, <<"-", "1", ".", "5", "e", "1">>, <<"]">> >>
  }

\* a line comment ended by a newline, and block comments
Comments == {
    <<"/", "/", " ", "x", "\n">>,
    <<"/", "*", " ", "c", "*", " ", "*", "/">>,
    <<"/", "*", "*", "/">>
  }

\* a number literal ends only at the byte after it: until then it is being scanned
IsNumberToken(tok) == isdigit(ord[tok[1]]) \/ tok[1] = "-"

\* the comment c put between tokens i and i + 1 of ts
WithComment(ts, i, c) ==
    Bytes(Concat(SubSeq(ts, 1, i)) \o c \o Concat(SubSeq(ts, i + 1, Len(ts))))

BOM == <<239, 187, 191>>

\* the texts put after a byte-order mark
AfterMarkTexts == {
    <<>>,
    Bytes(<<"[", "]">>),
    Bytes(<<"1">>),
    Bytes(<<" ", "[", "1", ",", "q", "a", "q", "]">>),
    Bytes(<<"{", "q", "a", "q", ":", "1", "}">>),
    Bytes(<<"[", "1">>),
    Bytes(<<"x">>),
    Bytes(<<"t", "r", "u">>),
    Bytes(<<"q", "xEF", "xBB", "xBF", "q">>),
    Bytes(<<"xEF">>),
    Bytes(<<"xEF", "xBB">>),
    Bytes(<<"xEF", "xBB", "xBF">>),
    Bytes(<<"xEF", "xBB", "xBF", "[", "]">>),
    Bytes(<<"xEF", "xBB", "xBF", "1">>)
  }

(* the pairs of calls: the text of the first call, the text of the second, *)
(* and whether the pair is one the comment rule covers                     *)
PairCalls ==
    UNION {{[kind |-> "comment", text |-> WithComment(ts, i, c),
             other |-> Bytes(Concat(ts)), in_scope |-> ~IsNumberToken(ts[i])] :
                i \in 1..(Len(ts) - 1), c \in Comments} : ts \in TokenTexts}
    \cup {[kind |-> "comment", in_scope |-> TRUE,
           text |-> Bytes(<<"{", " ", "/", "/", " ", "x", "\n", " ", "q", "a", "q", ":",
                           "1", " ", "}">>),
           other |-> Bytes(<<"{", "q", "a", "q", ":", "1", "}">>)]}
    \cup {[kind |-> "mark", text |-> BOM \o t, other |-> t, in_scope |-> TRUE] :
            t \in AfterMarkTexts}
    \cup {[kind |-> "prefix", text |-> t, other |-> t, in_scope |-> TRUE] :
            t \in {<<239>>, <<239, 187>>}}

\* the first call of a pair: as Init, on the pair's text
InitPair ==
    /\ \E c \in PairCalls :
          /\ input = c.text
          /\ settings = [DefaultSettings EXCEPT !.allow_comments = (c.kind = "comment")]
          /\ result = [NoResult EXCEPT !.pair = c.kind, !.other = c.other,
                                       !.in_scope = c.in_scope]
    /\ beyond = -1
    /\ pc = "scan"
    /\ state = [used_memory |-> 0, first_pass |-> 1, ptr |-> json,
                cur_line |-> 1, cur_col |-> 0]
    /\ flags = {"flag_seek_value"}
    /\ top = 0 /\ root = 0 /\ alloc = 0
    /\ string = NoString
    /\ string_length = 0
    /\ num = ZeroNum
    /\ error = [msg |-> "", line |-> 0, col |-> 0, at |-> 0]
    /\ nodes = <<>>
    /\ heap = <<>>
    /\ hist = ZeroHist
    /\ value = 0
    /\ free_with = "none"

(* The caller keeps what the first call gave and calls json::parse again   *)
(* (lines 246-286) on the other text of the pair, in the same memory: the  *)
(* byte after the buffer is the one the first call found there.  A text    *)
(* without comments is parsed with comments disabled.                      *)
ParseOther ==
    /\ pc = "returned"
    /\ result.pair # "none"
    /\ ~result.first.done
    /\ input' = result.other
    /\ settings' = [settings EXCEPT !.allow_comments = FALSE]
    /\ result' = [NoResult EXCEPT !.pair = result.pair, !.other = input,
                                  !.in_scope = result.in_scope, !.first = Outcome]
    /\ pc' = "scan"
    /\ state' = [used_memory |-> 0, first_pass |-> 1, ptr |-> json',
                 cur_line |-> 1, cur_col |-> 0]
    /\ flags' = {"flag_seek_value"}
    /\ top' = 0 /\ root' = 0 /\ alloc' = 0
    /\ string' = NoString
    /\ string_length' = 0
    /\ num' = ZeroNum
    /\ error' = [msg |-> "", line |-> 0, col |-> 0, at |-> 0]
    /\ nodes' = <<>>
    /\ heap' = <<>>
    /\ hist' = ZeroHist
    /\ value' = 0
    /\ free_with' = "none"
    /\ UNCHANGED beyond

NextPair ==
    \/ Next
    \/ ParseOther

SpecPair == InitPair /\ [][NextPair]_vars

\* both calls of a pair have returned
BothReturned == pc = "returned" /\ result.first.done

ReleasesWithSameSettings ==
    free_with = "settings" =>
        /\ pc # "crashed"
        /\ pc = "freed" => \A p \in DOMAIN heap : heap[p].frees = 1

(* C16: every node shell is requested with the size of the whole node      *)
(* record plus settings.value_extra, and no field of a node is written     *)
(* beyond the size requested for it.                                       *)
ShellHoldsNode ==
    /\ \A p \in DOMAIN heap :
          heap[p].kind = "shell" => heap[p].size = SizeofJsonValue + settings.value_extra
    /\ ~hist.shell_overrun

\* the bytes of the names of the first n entries of object k, each with its terminator
RECURSIVE NameBytes(_, _)
NameBytes(k, n) ==
    IF n = 0 THEN 0
    ELSE NameBytes(k, n - 1) + heap[nodes[k].values].names[n].name_length + 1

\* the sizes of the first n allocations together
RECURSIVE SizesUpTo(_)
SizesUpTo(n) == IF n = 0 THEN 0 ELSE SizesUpTo(n - 1) + heap[n].size

\* the size of the payload of node k of a returned tree, 0 when it needs none
NeededPayload(k) ==
    CASE nodes[k].type = "json_array" -> nodes[k].length * SizeofPointer
      [] nodes[k].type = "json_object" ->
           IF nodes[k].length = 0 THEN 0
           ELSE nodes[k].length * SizeofObjectEntry + NameBytes(k, nodes[k].length)
      [] nodes[k].type = "json_string" -> nodes[k].length + 1
      [] OTHER -> 0

SameOutcome ==
    /\ result.first.ok = (result.ret = "tree")
    /\ result.ret = "tree" => result.first.tree = TreeOf(root)

(* C18 as stated: for every byte string s, parse of EF BB BF followed by s *)
(* has the same outcome as parse of s.                                     *)
MarkIsSkipped ==
    BothReturned /\ result.pair = "mark" => SameOutcome

(* C18, amended: for every byte string s that does not itself begin with   *)
(* EF BB BF, parse of EF BB BF followed by s has the same outcome as parse *)
(* of s; an input that is only a prefix of the mark is not skipped: its    *)
(* first byte is the one refused.                                          *)
OneMarkIsSkipped ==
    /\ BothReturned /\ result.pair = "mark" /\ ~HasBOM => SameOutcome
    /\ pc = "returned" /\ result.pair = "prefix" =>
          /\ result.ret = "nullptr"
          /\ error.at = 0
          /\ error.msg = "Unexpected character when seeking value"

\* EF BB BF {"a":1} and {"a":1} were both parsed, to the same object
ParsedWithAndWithoutMark ==
    /\ BothReturned
    /\ result.pair = "mark"
    /\ result.ret = "tree"
    /\ result.first.ok
    /\ result.first.tree = TreeOf(root)
    /\ nodes[root].type = "json_object"
    /\ result.other = BOM \o input

(* C19: in value_free, for a returned tree and for the teardown parse runs *)
(* after a failure of the building pass, every child slot read lies in a   *)
(* buffer that was granted and was filled, the buffer of an empty          *)
(* container is not read, and no node is read after it was freed.          *)
TeardownReadsFilledSlots ==
    /\ hist.crash \notin {"null values", "slot outside the buffer", "uninitialised slot"}
    /\ ~hist.uaf

\* json::parse failed in the counting pass and is rolling back or has returned
CountingFailed == state.first_pass = 1 /\ pc \in {"rollback", "returned"}

(* C20: when the counting pass fails, the rollback frees each node shell   *)
(* created so far exactly once and nothing else: mem_free is given no null *)
(* pointer and nothing that is no allocation (an object's total of name    *)
(* bytes, kept in its values field, among them), the teardown value_free   *)
(* is not run, and only shells were ever allocated.                        *)
RollbackFreesShellsOnly ==
    CountingFailed =>
        /\ \A p \in DOMAIN heap : heap[p].kind = "shell" /\ heap[p].frees <= 1
        /\ hist.free_null = 0
        /\ hist.free_bad = 0
        /\ ~hist.uaf
        /\ free_with = "none"
        /\ pc = "returned" =>
              /\ result.ret = "nullptr"
              /\ \A p \in DOMAIN heap : heap[p].frees = 1

\* a counting pass that failed after three shells, the root an object with name bytes counted
RolledBackThreeShells ==
    /\ CountingFailed
    /\ pc = "returned"
    /\ Len(heap) = 3
    /\ nodes[root].type = "json_object"
    /\ nodes[root].values = 5
    /\ \A p \in DOMAIN heap : heap[p].frees = 1

----------------------------------------------------------------------------
(* The two passes side by side *)

\* the kind of shell a value start of the building pass may be handed
KindMatches(shell, asked) ==
    IF asked = "json_integer" THEN nodes[shell].type \in {"json_integer", "json_double"}
    ELSE nodes[shell].type = asked

\* the building pass has reached the end of the text
BuildingEnded == pc = "pass_end" /\ state.first_pass = 0

(* C21: in the building pass the k-th value start receives the k-th shell  *)
(* the counting pass created, of the kind the byte at the cursor asks for  *)
(* (integer or double where it asks for a number); no value start finds    *)
(* the chain empty, the chain is empty when the pass ends, and the pass    *)
(* ends at the position where the counting pass ended.                     *)
ShellsReusedInOrder ==
    /\ \A k \in DOMAIN hist.starts :
          /\ hist.starts[k].shell = k
          /\ k <= Len(nodes)
          /\ KindMatches(k, hist.starts[k].asked)
    /\ Building /\ alloc # 0 => alloc = Len(hist.starts) + 1
    /\ Building /\ alloc = 0 => Len(hist.starts) = Len(nodes)
    /\ BuildingEnded =>
          /\ alloc = 0
          /\ Len(hist.starts) = Len(nodes)
          /\ state.ptr = hist.count_end

\* the building pass ended after handing out six shells, a string and a double among them
ReusedSixShells ==
    /\ BuildingEnded
    /\ Len(hist.starts) = 6
    /\ \E k \in 1..6 : hist.starts[k].asked = "json_string"
    /\ \E k \in 1..6 : hist.starts[k].asked = "json_integer" /\ nodes[k].type = "json_double"

\* the requests made of json_alloc so far, refused ones included
Requests == hist.calls + hist.quota_refused + hist.guard_refused

\* json::parse has failed in the building pass
BuildingFailed == state.first_pass = 0 /\ error.msg # ""

(* C22: until the counting pass has accepted the whole text only node      *)
(* shells are requested, no payload; and a building pass fails only with   *)
(* Memory allocation failure, never with a message of the syntax, unknown  *)
(* value or overflow exits.                                                *)
ValidatedBeforePayloads ==
    /\ state.first_pass = 1 =>
          /\ \A p \in DOMAIN heap : heap[p].kind = "shell"
          /\ hist.requested = Requests * (SizeofShellRequest + settings.value_extra)
    /\ BuildingFailed => error.msg = "Memory allocation failure"
    /\ state.first_pass = 0 /\ pc = "e_failed" => error.msg # ""

\* a building pass that failed after it was granted a payload
BuildingFailedAfterPayload ==
    /\ BuildingFailed
    /\ \E p \in DOMAIN heap : heap[p].kind # "shell"
    /\ hist.calls > Len(heap)

\* the newline bytes among the first n bytes of the text
NewlinesBefore(n) == Cardinality({i \in 1..Min(n, Len(input)) : input[i] = 10})

(* C23: every message that carries a position reports as its line 1 plus   *)
(* the number of newline bytes before the offending byte, wherever they    *)
(* lie: between tokens, in a string, in a line comment, in a block comment *)
ErrorReportsLine ==
    error.msg \notin {"", "Memory allocation failure"} =>
        error.line = 1 + NewlinesBefore(error.at)

----------------------------------------------------------------------------
(* Comments *)

\* the byte at index p of the text (0 past its end)
ByteAt(p) == IF p >= 0 /\ p < end THEN input[p + 1] ELSE 0

\* the bytes at p and p + 1 are the close sequence of a block comment
ClosesAt(p) == p + 1 < end /\ ByteAt(p) = 42 /\ ByteAt(p + 1) = 47

\* a line comment ends at a CR, at a LF or at the end of the text
LineCommentsEnd ==
    \A k \in DOMAIN hist.comments :
        hist.comments[k].kind = "line" =>
            \/ hist.comments[k].at = end
            \/ ByteAt(hist.comments[k].at) \in {13, 10}

\* a block comment ends at the first close sequence after its opener
BlockCommentsEnd ==
    \A k \in DOMAIN hist.comments :
        hist.comments[k].kind = "block" =>
            /\ ClosesAt(hist.comments[k].at)
            /\ \A p \in (hist.comments[k].from + 1)..(hist.comments[k].at - 1) : ~ClosesAt(p)

\* a block comment fails the parse where the text ends inside it, and only there
BlockCommentNeedsClose ==
    /\ error.msg = "Unexpected EOF in block comment" => error.at = end
    /\ "flag_block_comment" \in flags /\ pc = "scan" => state.ptr <= end
    /\ result.ret = "tree" => "flag_block_comment" \notin flags

\* a line comment after the complete root value that runs to the end of the text is accepted
LineCommentAtEndAccepted ==
    (\E k \in DOMAIN hist.comments :
        /\ hist.comments[k].kind = "line"
        /\ hist.comments[k].at = end
        /\ hist.comments[k].done)
    => error.msg \in {"", "Memory allocation failure"}

\* with comments disabled no text with a '/' outside a string is accepted
SlashRefusedWhenDisabled ==
    result.ret = "tree" /\ ~settings.allow_comments =>
        \A p \in 0..(end - 1) : ByteAt(p) = 47 => p \in hist.in_string

(* C24: with comments enabled a line comment ends at the next CR, LF or    *)
(* end of input, a block comment ends only at the first close sequence     *)
(* after it, the end of input inside a block comment fails the parse and a *)
(* line comment that runs to the end of input after the complete root      *)
(* value does not; with comments disabled a '/' outside a string always    *)
(* fails the parse.                                                        *)
CommentsEndAsStated ==
    /\ LineCommentsEnd
    /\ BlockCommentsEnd
    /\ BlockCommentNeedsClose
    /\ LineCommentAtEndAccepted
    /\ SlashRefusedWhenDisabled

----------------------------------------------------------------------------
(* Nesting *)

\* the parent chain of node k, from the root down to k
RECURSIVE ChainOf(_)
ChainOf(k) == IF k = 0 THEN <<>> ELSE Append(ChainOf(nodes[k].parent), k)

\* the root value is complete
Done == "flag_done" \in flags

\* top is a string or a number that is being scanned
ScanningScalar == top # 0 /\ ~Done /\ ~IsContainer(top)

(* C25: at every iteration of either pass the parent chain of the current  *)
(* node is the list of the containers opened and not yet closed, followed  *)
(* by the string or number being scanned if there is one; a closing        *)
(* bracket is accepted only for an innermost open container of its kind;   *)
(* and the root is marked done exactly when no container is open and no    *)
(* value is being scanned (top then stays at the root).                    *)
NestingIsParentChain ==
    pc \in {"scan", "pass_end"} =>
        /\ ~hist.mismatch
        /\ root = 0 => top = 0 /\ hist.open = <<>> /\ ~Done
        /\ root # 0 =>
              /\ ~Done => ChainOf(top) = hist.open \o (IF ScanningScalar THEN <<top>> ELSE <<>>)
              /\ Done <=> hist.open = <<>> /\ ~ScanningScalar
              /\ Done => top = root
              /\ ChainOf(top)[1] = root

\* three containers open, a string being scanned inside the innermost
ScanningInsideThree ==
    /\ pc = "scan"
    /\ Len(hist.open) = 3
    /\ ScanningScalar
    /\ Len(ChainOf(top)) = 4
    /\ nodes[hist.open[1]].type = "json_object"
    /\ nodes[hist.open[3]].type = "json_array"

----------------------------------------------------------------------------
(* The length counters *)

\* the parse is under way: json::parse has not returned
Parsing == pc \in {"scan", "pass_end", "e_failed", "rollback"}

(* C26 as stated: the decoded-length counter of a string and the child     *)
(* counter of a container stay at or below their maximum minus the margin  *)
(* of 8 throughout the parse.                                              *)
CountersStayBelowMargin ==
    Parsing =>
        /\ string_length <= uint_max
        /\ \A k \in DOMAIN nodes : IsContainer(k) => nodes[k].length <= uint_max

\* the most one iteration adds to the length of a string: one code point of 4 bytes
MostAdded == 4

\* the counters lie in the margin at most, and a counter that has entered it has failed the parse
CountersWithinMargin ==
    /\ Parsing =>
          /\ string_length <= uint_max + MostAdded
          /\ \A k \in DOMAIN nodes :
                /\ IsContainer(k) => nodes[k].length <= uint_max + 1
                /\ IsContainer(k) /\ nodes[k].length > uint_max =>
                      pc # "scan" /\ error.msg = "Too long (caught overflow)"
                /\ nodes[k].type = "json_string" => nodes[k].length <= uint_max
    /\ result.ret = "tree" =>
          \A k \in DOMAIN nodes : nodes[k].length <= uint_max

\* one iteration inside a string: the counter does not fall, and past the limit the parse fails
StringCounterStep ==
    pc = "scan" /\ "flag_string" \in flags =>
        /\ pc' = "scan" /\ "flag_string" \in flags' =>
              /\ string_length' >= string_length
              /\ string_length' <= string_length + MostAdded
        /\ string_length > uint_max =>
              /\ pc' = "e_failed"
              /\ error'.msg \in {"Too long (caught overflow)", "Unexpected EOF in string"}

(* one iteration: a child counter rises by one at most, and falls only     *)
(* when the building pass hands the container out and resets it            *)
ChildCounterStep ==
    pc = "scan" /\ pc' \in {"scan", "e_failed"} =>
        \A k \in DOMAIN nodes :
            IsContainer(k) =>
                \/ nodes'[k].length = nodes[k].length
                \/ nodes'[k].length = nodes[k].length + 1
                \/ /\ state.first_pass = 0 /\ alloc = k /\ alloc' # k
                   /\ nodes'[k].length = 0

(* C26, amended: the counters never wrap.  A string's counter passes the   *)
(* maximum minus 8 by 4 at most, what one iteration adds, and the parse    *)
(* then fails at the next byte of the string; a child counter that passes  *)
(* it fails the parse at once; the lengths of a returned tree are at or    *)
(* below the maximum minus 8.                                              *)
CountersNeverWrap ==
    /\ []CountersWithinMargin
    /\ [][StringCounterStep /\ ChildCounterStep]_vars

\* the overflow exit taken with a string counter at the far end of what the margin allows
OverflowAtFarEnd ==
    /\ pc = "e_failed"
    /\ error.msg = "Too long (caught overflow)"
    /\ "flag_string" \in flags
    /\ string_length = uint_max + MostAdded

----------------------------------------------------------------------------
(* Termination *)

\* json::parse has ended: it returned, or it was stopped by a fault in its teardown
ParseEnded == pc \in {"returned", "value_free", "freed", "crashed"}

\* value_free as called by the caller has ended: it returned, or was stopped by a fault
FreeEnded == pc \in {"freed", "crashed"}

\* no byte is examined more than twice in a pass, and none before the start of the text
ExaminedTwiceAtMost ==
    /\ hist.thrice = {}
    /\ \A p \in hist.seen : p >= json
    /\ Cardinality(hist.seen) + Cardinality(hist.again) <= 2 * (end - json + 2)

\* from one iteration to the next the cursor moves on, or stays for a second look at most
CursorMovesOn ==
    pc = "scan" /\ pc' = "scan" =>
        /\ state'.ptr >= state.ptr
        /\ state'.ptr = state.ptr => state.ptr \notin hist.again

(* C27: json::parse ends on every text and with every allocator, no byte   *)
(* being examined more than twice in a pass and the cursor never moving    *)
(* back, and value_free ends on every tree that parse returned.  A call    *)
(* stopped by a fault has ended.                                           *)
CallsTerminate ==
    /\ <>ParseEnded
    /\ (pc = "value_free") ~> FreeEnded
    /\ []ExaminedTwiceAtMost
    /\ [][CursorMovesOn]_vars

\* a pass ended after the byte at the end of the text was examined twice, after a line comment
ExaminedEndTwice ==
    /\ pc = "pass_end"
    /\ end \in hist.again
    /\ Len(hist.comments) > 0
    /\ hist.comments[Len(hist.comments)].kind = "line"
    /\ hist.comments[Len(hist.comments)].at = end

----------------------------------------------------------------------------
(* Reads of the input *)

(* C28: json::parse reads no byte of the input at or past its length,      *)
(* whatever the text and wherever it ends.                                  *)
ReadsStayInside == ~hist.overread

----------------------------------------------------------------------------
(* What mem_free is given *)

(* C29: mem_free is only given a pointer that mem_alloc returned in this   *)
(* call and that was not freed since: never a null pointer, never a value  *)
(* that is no allocation, never an allocation twice.                        *)
FreesOnlyLiveAllocations ==
    /\ hist.free_null = 0
    /\ hist.free_bad = 0
    /\ \A p \in DOMAIN heap : heap[p].frees <= 1

----------------------------------------------------------------------------
(* Separators *)

\* where the text proper ends for the scan: the position the counting pass stopped at
TextEnd == hist.count_end

\* p lies inside a \u escape: between two bytes scanned in a string, no quote between
InEscape(p) ==
    \E a, b \in hist.in_string :
        /\ a < p /\ p < b
        /\ \A k \in (a + 1)..(b - 1) : k \notin hist.in_string /\ ByteAt(k) # 34

\* p lies in a string after its opening quote, the closing quote included
InStringBody(p) == p \in hist.in_string \/ InEscape(p)

\* p lies in a comment, opener (its second byte is at from) and close sequence included
InCommentText(p) ==
    \E k \in DOMAIN hist.comments :
        /\ hist.comments[k].from - 1 <= p
        /\ p <= hist.comments[k].at + (IF hist.comments[k].kind = "block" THEN 1 ELSE 0)

\* p holds a structural byte or a byte of a number or keyword, or opens a string
Significant(p) ==
    /\ p \in json..(TextEnd - 1)
    /\ ~InStringBody(p)
    /\ ~InCommentText(p)
    /\ ~IsWhitespace(ByteAt(p))

\* p holds the closing quote of a string
ClosingQuote(p) ==
    /\ p \in json..(TextEnd - 1)
    /\ InStringBody(p)
    /\ ~InStringBody(p + 1)

\* p holds a token, or the last byte of a string
Token(p) == Significant(p) \/ ClosingQuote(p)

\* b is a byte of a number or of a keyword
ScalarByte(b) == b \notin {91, 93, 123, 125, 44, 58, 34}

HasNextToken(p) == \E q \in (p + 1)..(TextEnd - 1) : Token(q)
NextToken(p) == CHOOSE q \in (p + 1)..(TextEnd - 1) :
                    Token(q) /\ \A k \in (p + 1)..(q - 1) : ~Token(k)

HasPrevToken(p) == \E q \in json..(p - 1) : Token(q)
PrevToken(p) == CHOOSE q \in json..(p - 1) :
                    Token(q) /\ \A k \in (q + 1)..(p - 1) : ~Token(k)

\* a value or a member ends at p: a closing quote, bracket or brace, a scalar's byte
EndsValue(p) ==
    \/ ClosingQuote(p)
    \/ Significant(p) /\ (ByteAt(p) \in {93, 125} \/ ScalarByte(ByteAt(p)))

\* a value or a member starts at p: an opening quote, bracket or brace, a scalar's byte
StartsValue(p) == Significant(p) /\ ByteAt(p) \notin {93, 125, 44, 58}

\* p holds a comma that separates
IsComma(p) == Significant(p) /\ ByteAt(p) = 44

\* in an accepted text every comma comes after a value: none leads, none follows a comma
CommaFollowsValue ==
    result.ret = "tree" =>
        \A p \in json..(TextEnd - 1) :
            IsComma(p) => HasPrevToken(p) /\ EndsValue(PrevToken(p))

\* in an accepted text every comma comes before a value: none before a closing ] or }
CommaPrecedesValue ==
    result.ret = "tree" =>
        \A p \in json..(TextEnd - 1) :
            IsComma(p) => HasNextToken(p) /\ StartsValue(NextToken(p))

\* in an accepted text no value follows a value without a comma between them
ValuesAreSeparated ==
    result.ret = "tree" =>
        \A p \in json..(TextEnd - 1) :
            Token(p) /\ EndsValue(p) /\ HasNextToken(p) /\ StartsValue(NextToken(p))
            => /\ NextToken(p) = p + 1
               /\ Significant(p)
               /\ ScalarByte(ByteAt(p))
               /\ ScalarByte(ByteAt(p + 1))

(* C30: a text is accepted only if every comma stands between two values   *)
(* or members: none before a closing bracket or brace, none leading, no    *)
(* two in a row, and no two values or members without a comma between.     *)
SeparatorsAreExact ==
    /\ CommaFollowsValue
    /\ CommaPrecedesValue
    /\ ValuesAreSeparated

----------------------------------------------------------------------------
(* The integer part of a number *)

\* the positions where the building pass started a number
NumberStarts ==
    {hist.starts[k].at : k \in {i \in DOMAIN hist.starts :
                                   hist.starts[i].asked = "json_integer"}}

(* C31: every number of an accepted text has a digit in its integer part:  *)
(* a `-` that starts a number is followed by a digit, or the parse fails.  *)
MinusNeedsDigit ==
    result.ret = "tree" =>
        \A p \in NumberStarts :
            /\ ByteAt(p) = 45 \/ isdigit(ByteAt(p))
            /\ ByteAt(p) = 45 => isdigit(ByteAt(p + 1))

\* an accepted number starts with a digit or a `-`
NumbersStartWithDigitOrMinus ==
    result.ret = "tree" => \A p \in NumberStarts : ByteAt(p) = 45 \/ isdigit(ByteAt(p))

----------------------------------------------------------------------------
(* Payload sizes *)

\* the size the payload of a node needs, from its counters
ExactSize(r) ==
    CASE r.type = "json_array" -> r.length * SizeofPointer
      [] r.type = "json_object" -> r.length * SizeofObjectEntry + r.names
      [] r.type = "json_string" -> r.length + 1

(* C32: every payload request of the building pass has the exact size: an  *)
(* object length x entry size + name bytes, an array length x reference    *)
(* size, a string length + 1, for every counter the guards let through.    *)
PayloadSizesAreExact ==
    \A k \in DOMAIN hist.payloads :
        /\ hist.payloads[k].length <= uint_max
        /\ hist.payloads[k].size = ExactSize(hist.payloads[k])

\* the array and string requests are exact
ArrayAndStringSizesAreExact ==
    \A k \in DOMAIN hist.payloads :
        hist.payloads[k].type # "json_object" =>
            hist.payloads[k].size = ExactSize(hist.payloads[k])

\* the counters of the nodes the building pass is handed are within the guards' limit
CountersWithinLimit ==
    \A k \in DOMAIN hist.payloads : hist.payloads[k].length <= uint_max

====
